---- MODULE Spec2Model ----
(***************************************************************************)
(* Model of the SanctumWriter review pipeline.                             *)
(*                                                                         *)
(*  - Spec   : the council review orchestration (runFullCouncilReview and  *)
(*             runReviewPipeline of lib/council/reviewPipeline, together   *)
(*             with the StartReviewButton handlers that drive them).       *)
(*  - SpecMM : the VRAM model manager (lib/llm/modelManager.ts) running    *)
(*             ensureModelLoaded against an Ollama gateway.                *)
(*  - SpecParallel : runReviewPipelineParallel.                             *)
(*  - SpecParse, SpecConv, SpecSynth : parseFeedback, the conversion of    *)
(*             its findings to comments, and the reading of the editor's   *)
(*             answer, on texts built from bounded sets.                   *)
(*  - SpecSearch : the search route (app/api/search/route.ts).             *)
(*  - SpecWorkflow : the workflow checklist of useWorkflowStore.           *)
(*  - SpecImage : the image studio panel polling one generation.           *)
(*                                                                         *)
(* JavaScript is single threaded: the code between two awaits runs         *)
(* atomically, so every action below is one such segment.                  *)
(*                                                                         *)
(* useCouncilStore is not part of the sources at hand: its state and       *)
(* setters are modelled as the plain setters their call sites imply. Spec  *)
(* follows one activation of the pipeline from the Start button to its     *)
(* return, with Cancel Review possible whenever isReviewing holds; a       *)
(* second review started while a cancelled one is still running is not     *)
(* part of it.                                                             *)
(***************************************************************************)
EXTENDS Integers, Sequences, FiniteSets, TLC

\* ---------------------------------------------------------------- bounds
MaxReviewers == 3
MaxFindings == 1

Models == {"A", "B"}
ReviewerIds == 1..MaxReviewers
NoReviewer == 0

\* A configured Reviewer (types/council Reviewer): the fields the pipeline reads.
ReviewerRec == [model : Models, isEditor : BOOLEAN, enabled : BOOLEAN]

\* What the gateway answers to one /api/generate call of a reviewer:
\* a transport error / non-2xx, or a response parsed into k findings.
Outcomes == {[ok |-> FALSE, n |-> 0]} \cup {[ok |-> TRUE, n |-> k] : k \in 0..MaxFindings}

Phases == <<"idle", "council_reviewing", "editor_synthesizing", "user_deciding", "complete">>

PhaseRank(p) == CHOOSE i \in 1..Len(Phases) : Phases[i] = p

VARIABLES
  reviewers,   \* useCouncilStore.reviewers: ReviewerIds -> ReviewerRec
  store,       \* the review state of useCouncilStore
  run,         \* the one activation of the async pipeline function
  hist,        \* history of the run, for stating properties
  gw,          \* the Ollama gateway: the models resident in VRAM
  mm,          \* the activation of modelManager.ensureModelLoaded
  parser,      \* one call of parseFeedback: its argument and its result
  search,      \* one request to the search route (app/api/search/route.ts)
  conv,        \* runReviewer turning one ParsedFeedback into a ReviewComment
  synth,       \* runEditorSynthesis reading the editor's response text
  wf,          \* useWorkflowStore.workflows for one document
  img          \* ImageStudio: one generation, its polling and the image store

vars == <<reviewers, store, run, hist, gw, mm, parser, search, conv, synth, wf, img>>

reviewVars == <<reviewers, store, run, hist>>

mmVars == <<gw, mm>>

parseVars == <<parser>>

searchVars == <<search>>

convVars == <<conv, synth>>

wfVars == <<wf>>

imgVars == <<img>>

\* A component that is not running.
Idle == [pc |-> "idle"]

\* The components with a variable of their own that a specification about
\* another component leaves alone.
sideVars == <<searchVars, convVars, wfVars, imgVars>>

SideIdle == search = Idle /\ conv = Idle /\ synth = Idle /\ wf = Idle /\ img = Idle

\* parseFeedback not called.
IdleParser ==
  [pc |-> "idle", source |-> <<>>, response |-> <<>>, feedback |-> <<>>,
   caught |-> FALSE, threw |-> FALSE]

\* ------------------------------------------------- modelManager: names
Bases == {"A", "B"}

Tags == {"latest", "q4"}

NoTag == ""

\* A model name "base" or "base:tag".
Name(base, tag) == [base |-> base, tag |-> tag]

\* The names /api/ps lists: always with a tag.
GwNames == {Name(b, t) : b \in Bases, t \in Tags}

\* The names a caller may ask for: with or without a tag.
ModelNames == GwNames \cup {Name(b, NoTag) : b \in Bases}

NoName == Name("", NoTag)

\* m.name === modelName || m.name.startsWith(`${modelName}:`)
Matches(listed, wanted) ==
  \/ listed = wanted
  \/ wanted.tag = NoTag /\ listed.base = wanted.base /\ listed.tag # NoTag

\* The gateway resolves a name without a tag to its :latest tag.
Canon(n) == IF n.tag = NoTag THEN Name(n.base, "latest") ELSE n

IdleGateway == [resident |-> {}]

IdleManager ==
  [pc |-> "idle", target |-> NoName, loaded |-> {}, todo |-> {}, cur |-> NoName,
   result |-> FALSE, fast |-> FALSE, listedOk |-> FALSE, evictMissed |-> FALSE,
   residentAtCall |-> {}, log |-> <<>>, status |-> [n \in ModelNames |-> "idle"],
   loadedModels |-> {}, callsLeft |-> 0, loadFailed |-> FALSE, repeatsFast |-> FALSE]

\* ------------------------------------------------- sequence helpers
RECURSIVE InArrayOrder(_, _)
\* Array.prototype.filter over the reviewers array keeps array order: the
\* reviewers of the set keep, from array position i on, as a sequence.
InArrayOrder(keep, i) ==
  IF i > MaxReviewers THEN <<>>
  ELSE (IF i \in keep THEN <<i>> ELSE <<>>) \o InArrayOrder(keep, i + 1)

Range(s) == {s[i] : i \in 1..Len(s)}

\* ------------------------------------------------- the council store
NoSummary == [set |-> FALSE, reviewerCount |-> 0, items |-> 0, errors |-> 0]

NoSession == [active |-> FALSE, reviewerIds |-> <<>>, status |-> "none",
              comments |-> <<>>, summary |-> NoSummary]

NoSynthesis ==
  [set |-> FALSE, reviewerId |-> NoReviewer, overallAssessment |-> "none",
   prioritizedChanges |-> <<>>]

NoDocument == [exists |-> FALSE, councilFeedback |-> <<>>, editorSynthesis |-> NoSynthesis]

InitStore ==
  [reviewPhase |-> "idle",
   isReviewing |-> FALSE,
   currentSession |-> NoSession,
   currentReviewDocument |-> NoDocument,
   reviewProgress |-> [r \in ReviewerIds |-> "pending"]]

InitRun ==
  [pc |-> "ready", mode |-> "none", reviewerIds |-> <<>>, council |-> <<>>,
   editor |-> NoReviewer, idx |-> 0, inflight |-> {}, allComments |-> <<>>, errors |-> <<>>,
   results |-> [r \in ReviewerIds |-> [status |-> "pending", value |-> <<>>]]]

InitHist ==
  [calls |-> <<>>,            \* reviewer ids in the order their /api/generate call was issued
   residencyCalls |-> <<>>,   \* models handed to ensureModelLoaded by the pipeline
   phaseLog |-> <<>>,         \* the phases the run handed to setReviewPhase, in order
   settled |-> {},            \* reviewers whose runReviewer promise has settled
   failed |-> {},             \* ... those that settled by throwing
   synthSent |-> FALSE,       \* the synthesis /api/generate call was issued
   synthInput |-> <<>>,       \* the councilFeedback its prompt was built from
   synthWrites |-> 0,         \* effective writes of editorSynthesis
   synthThrew |-> FALSE,      \* runEditorSynthesis threw
   synthReturned |-> FALSE,   \* runEditorSynthesis returned a value
   completeLog |-> <<>>,      \* the summaries handed to completeReview, in order
   cancelled |-> FALSE,
   cancelPc |-> "none",       \* where the run stood when cancelReview was called
   callsAtCancel |-> 0,
   phasesAtCancel |-> 0]

\* getEnabledReviewers(): the reviewers the user has toggled on.
GetEnabledReviewers(rs) == InArrayOrder({i \in ReviewerIds : rs[i].enabled}, 1)

\* getEditorReviewer(): the configured and enabled editor, NoReviewer when there is none.
GetEditorReviewer(rs) ==
  IF \E i \in ReviewerIds : rs[i].isEditor /\ rs[i].enabled
  THEN CHOOSE i \in ReviewerIds :
         /\ rs[i].isEditor /\ rs[i].enabled
         /\ \A j \in ReviewerIds : (rs[j].isEditor /\ rs[j].enabled) => i <= j
  ELSE NoReviewer

\* startReview(path, content, reviewerIds): a fresh in-progress ReviewSession.
StartReview(b, ids) ==
  [b EXCEPT !.store.isReviewing = TRUE,
            !.store.currentSession =
               [active |-> TRUE, reviewerIds |-> ids, status |-> "in_progress",
                comments |-> <<>>, summary |-> NoSummary],
            !.store.reviewProgress = [r \in ReviewerIds |-> "pending"]]

\* cancelReview(): back to idle, session and partial ReviewDocument discarded.
CancelStore(s) ==
  [s EXCEPT !.isReviewing = FALSE,
            !.reviewPhase = "idle",
            !.currentSession = NoSession,
            !.currentReviewDocument = NoDocument,
            !.reviewProgress = [r \in ReviewerIds |-> "pending"]]

\* initReviewDocument(sessionId, path, content): a fresh, empty ReviewDocument.
InitReviewDocument(b) ==
  [b EXCEPT !.store.currentReviewDocument =
               [exists |-> TRUE, councilFeedback |-> <<>>, editorSynthesis |-> NoSynthesis]]

\* setReviewPhase(phase)
SetReviewPhase(b, p) ==
  [b EXCEPT !.store.reviewPhase = p, !.hist.phaseLog = Append(@, p)]

\* setReviewProgress(reviewerId, status)
SetReviewProgress(b, r, status) ==
  [b EXCEPT !.store.reviewProgress[r] = status]

\* addComment(comment): appended to the session's comments (no session: nothing to add to).
AddComments(b, cs) ==
  IF b.store.currentSession.active
  THEN [b EXCEPT !.store.currentSession.comments = @ \o cs]
  ELSE b

\* addCouncilFeedback(reviewerId, comments, summary)
AddCouncilFeedback(b, r, cs) ==
  IF b.store.currentReviewDocument.exists
  THEN [b EXCEPT !.store.currentReviewDocument.councilFeedback =
                    Append(@, [reviewerId |-> r, comments |-> cs, summary |-> Len(cs),
                               model |-> reviewers[r].model])]
  ELSE b

\* setEditorSynthesis(synthesis)
SetEditorSynthesis(b, syn) ==
  IF b.store.currentReviewDocument.exists
  THEN [b EXCEPT !.store.currentReviewDocument.editorSynthesis = syn,
                 !.hist.synthWrites = @ + 1]
  ELSE b

\* completeReview(summary): closes the session.
CompleteReview(b, summary) ==
  IF b.store.currentSession.active
  THEN [b EXCEPT !.store.currentSession.status = "complete",
                 !.store.currentSession.summary = summary,
                 !.store.isReviewing = FALSE,
                 !.hist.completeLog = Append(@, summary)]
  ELSE [b EXCEPT !.hist.completeLog = Append(@, summary)]

\* ------------------------------------------------- reviewPipeline
\* The findings parsed from one reviewer response holding k items.
Findings(r, k) == [j \in 1..k |-> [reviewerId |-> r, n |-> j]]

\* CouncilReviewers without the !r.isEditor test.
CouncilReviewersWithEditor(rs, ids) ==
  InArrayOrder({i \in ReviewerIds : i \in Range(ids)}, 1)

\* runFullCouncilReview: reviewers.filter(r => reviewerIds.includes(r.id) && !r.isEditor)
CouncilReviewers(rs, ids) ==
  InArrayOrder({i \in ReviewerIds : i \in Range(ids) /\ ~rs[i].isEditor}, 1)

\* runReviewPipeline: reviewers.filter(r => reviewerIds.includes(r.id))
EnabledReviewers(rs, ids) ==
  InArrayOrder({i \in ReviewerIds : i \in Range(ids)}, 1)

\* Batch without the await: every remaining reviewer is started at once.
BatchNoAwait(i, n) == i..n

\* for (const reviewer of ...) { await runReviewer(reviewer, ...) }: the loop
\* positions whose runReviewer call is issued before the loop suspends at position i.
Batch(i, n) == {i}

\* LoopDone off by one: the last reviewer is never visited.
LoopDoneEarly(i, n) == i >= n

\* The loop is over once every position 1..n has been visited.
LoopDone(i, n) == i > n

\* runReviewer up to its fetch: progress in_progress, /api/generate issued.
RunReviewerStart(b, r) ==
  LET b1 == SetReviewProgress(b, r, "in_progress")
  IN [b1 EXCEPT !.run.inflight = @ \cup {r},
                !.hist.calls = Append(@, r)]

\* runReviewer after a 2xx response: comments stored, progress complete.
RunReviewerOk(b, r, k) ==
  LET b1 == AddComments(b, Findings(r, k))
      b2 == SetReviewProgress(b1, r, "complete")
  IN [b2 EXCEPT !.run.inflight = @ \ {r},
                !.hist.settled = @ \cup {r}]

\* runReviewer's catch: progress error, the error is thrown on to the caller.
RunReviewerFailed(b, r) ==
  LET b1 == SetReviewProgress(b, r, "error")
  IN [b1 EXCEPT !.run.inflight = @ \ {r},
                !.hist.settled = @ \cup {r},
                !.hist.failed = @ \cup {r}]

RECURSIVE StartAll(_, _, _)
\* Issue runReviewer for the loop positions of todo, in order.
StartAll(b, list, todo) ==
  IF todo = {} THEN b
  ELSE LET i == CHOOSE x \in todo : \A y \in todo : x <= y
       IN StartAll(RunReviewerStart([b EXCEPT !.run.idx = i], list[i]), list, todo \ {i})

\* runEditorSynthesis up to its fetch; it throws when there is no ReviewDocument,
\* which runFullCouncilReview catches.
RunEditorSynthesisStart(b) ==
  IF ~b.store.currentReviewDocument.exists
  THEN [b EXCEPT !.run.pc = "synthesis_threw", !.hist.synthThrew = TRUE]
  ELSE [b EXCEPT !.run.pc = "synthesizing",
                 !.hist.synthSent = TRUE,
                 !.hist.synthInput = b.store.currentReviewDocument.councilFeedback]

\* What the gateway does with the synthesis /api/generate call: the fetch
\* rejects, a non-2xx status, a 2xx whose body is not JSON, or a 2xx whose
\* response text holds no {...}, a {...} that is not JSON, or a JSON object. The
\* object may lack overallAssessment; its prioritizedChanges is absent, a list
\* of items (here by their priority, "" when the item has none) or not a list.
SynthesisResponses ==
  {[kind |-> k, assessment |-> FALSE, changes |-> "absent", items |-> <<>>] :
     k \in {"transport_error", "not_ok", "bad_body", "no_json", "bad_json"}}
  \cup {[kind |-> "json", assessment |-> a, changes |-> c, items |-> <<>>] :
          a \in BOOLEAN, c \in {"absent", "not_a_list"}}
  \cup {[kind |-> "json", assessment |-> a, changes |-> "list", items |-> i] :
          a \in BOOLEAN, i \in {<<>>, <<"high">>, <<"">>, <<"low", "">>}}

\* (c.priority as ...) || 'medium'
Priority(p) == IF p = "" THEN "medium" ELSE p

\* runEditorSynthesis from its fetch to its return or throw.
RunEditorSynthesisFinish(editor, resp) ==
  IF resp.kind \in {"transport_error", "not_ok", "bad_body"}
  THEN [threw |-> TRUE, value |-> NoSynthesis]
  ELSE IF resp.kind = "json" /\ resp.changes = "not_a_list"
  THEN [threw |-> TRUE, value |-> NoSynthesis]
  ELSE LET parsed == resp.kind = "json"
       IN [threw |-> FALSE,
           value |-> [set |-> TRUE, reviewerId |-> editor,
                      overallAssessment |->
                        IF parsed /\ resp.assessment THEN "parsed" ELSE "first500",
                      prioritizedChanges |->
                        IF parsed /\ resp.changes = "list"
                        THEN [i \in 1..Len(resp.items) |-> Priority(resp.items[i])]
                        ELSE <<>>]]

\* UserDeciding with the phase constant of phase 1.
UserDecidingWrongPhase(b) ==
  [SetReviewPhase(b, "council_reviewing") EXCEPT !.run.pc = "done"]

\* Phase 3 of runFullCouncilReview.
UserDeciding(b) ==
  [SetReviewPhase(b, "user_deciding") EXCEPT !.run.pc = "done"]

\* SynthesisFailed that lets the error escape runFullCouncilReview.
SynthesisFailedAborts(b) ==
  [b EXCEPT !.hist.synthThrew = TRUE, !.run.pc = "done"]

\* runFullCouncilReview's catch around runEditorSynthesis: logged, then phase 3.
SynthesisFailed(b) ==
  UserDeciding([b EXCEPT !.hist.synthThrew = TRUE])

\* AfterCouncil without the `if (editor)` test.
AfterCouncilAlwaysSynthesis(b) ==
  LET b1 == RunEditorSynthesisStart(SetReviewPhase(b, "editor_synthesizing"))
  IN IF b1.run.pc = "synthesis_threw" THEN UserDeciding(b1) ELSE b1

\* runFullCouncilReview after the council loop: phase 2, then phase 3.
AfterCouncil(b) ==
  IF b.run.editor # NoReviewer
  THEN LET b1 == RunEditorSynthesisStart(SetReviewPhase(b, "editor_synthesizing"))
       IN IF b1.run.pc = "synthesis_threw" THEN UserDeciding(b1) ELSE b1
  ELSE UserDeciding(b)

\* generateReviewSummary(comments, reviewerCount, errors)
GenerateReviewSummary(comments, reviewerCount, errors) ==
  [set |-> TRUE, reviewerCount |-> reviewerCount, items |-> Len(comments),
   errors |-> Len(errors)]

\* runReviewPipeline after its loop: summary, completeReview.
AfterPipeline(b) ==
  LET summary == GenerateReviewSummary(b.run.allComments, Len(b.run.council), b.run.errors)
  IN [CompleteReview(b, summary) EXCEPT !.run.pc = "done"]

\* One turn of the for loop at position i.
LoopAt(b, i) ==
  LET n == Len(b.run.council)
  IN IF LoopDone(i, n)
     THEN (IF b.run.mode = "full" THEN AfterCouncil(b) ELSE AfterPipeline(b))
     ELSE [StartAll(b, b.run.council, Batch(i, n) \cap (1..n)) EXCEPT !.run.pc = "reviewing"]

\* The loop body after `await runReviewer(...)` of reviewer r has settled.
LoopBody(b, r, out) ==
  IF out.ok
  THEN LET b1 == RunReviewerOk(b, r, out.n)
       IN IF b.run.mode = "full"
          THEN AddCouncilFeedback(b1, r, Findings(r, out.n))
          ELSE [b1 EXCEPT !.run.allComments = @ \o Findings(r, out.n)]
  ELSE LET b1 == RunReviewerFailed(b, r)
       IN IF b.run.mode = "full"
          THEN b1
          ELSE [b1 EXCEPT !.run.errors = Append(@, r)]

RECURSIVE Collect(_, _, _)
\* Collect that drops the reason of a rejected task.
CollectFulfilled(b, list, i) ==
  IF i > Len(list) THEN b
  ELSE LET result == b.run.results[list[i]]
       IN Collect(IF result.status = "fulfilled"
                  THEN [b EXCEPT !.run.allComments = @ \o result.value]
                  ELSE b, list, i + 1)

\* runReviewPipelineParallel: results.forEach((result, index) => ...) from
\* position i on: the value of a fulfilled task goes to allComments, the reason
\* of a rejected one to errors.
Collect(b, list, i) ==
  IF i > Len(list) THEN b
  ELSE LET result == b.run.results[list[i]]
       IN Collect(IF result.status = "fulfilled"
                  THEN [b EXCEPT !.run.allComments = @ \o result.value]
                  ELSE [b EXCEPT !.run.errors = Append(@, list[i])], list, i + 1)

\* runReviewPipelineParallel after `await Promise.allSettled(...)`.
AfterAllSettled(b) ==
  LET b1 == Collect(b, b.run.council, 1)
      summary == GenerateReviewSummary(b1.run.allComments, Len(b1.run.council), b1.run.errors)
  IN [CompleteReview(b1, summary) EXCEPT !.run.pc = "done"]

\* One runReviewer promise of Promise.allSettled settles.
TaskSettled(b, r, out) ==
  IF out.ok
  THEN [RunReviewerOk(b, r, out.n) EXCEPT
          !.run.results[r] = [status |-> "fulfilled", value |-> Findings(r, out.n)]]
  ELSE [RunReviewerFailed(b, r) EXCEPT
          !.run.results[r] = [status |-> "rejected", value |-> <<>>]]

Bundle == [store |-> store, run |-> run, hist |-> hist]

Commit(b) ==
  /\ store' = b.store
  /\ run' = b.run
  /\ hist' = b.hist
  /\ UNCHANGED <<reviewers, mmVars, parseVars, sideVars>>

\* ------------------------------------------------- actions
\* StartReviewButton.handleStartReview up to `await import(...)`.
HandleStartReview ==
  /\ run.pc = "ready"
  /\ GetEnabledReviewers(reviewers) # <<>>
  /\ LET ids == GetEnabledReviewers(reviewers)
         b1 == StartReview(Bundle, ids)
     IN Commit([b1 EXCEPT !.run.pc = "importing", !.run.mode = "full",
                          !.run.reviewerIds = ids])

\* RunFullCouncilReview without `if (councilReviewers.length === 0) return`.
RunFullCouncilReviewNoReturn ==
  /\ run.pc = "importing"
  /\ LET council == CouncilReviewers(reviewers, run.reviewerIds)
         editor == GetEditorReviewer(reviewers)
         b0 == [Bundle EXCEPT !.run.council = council, !.run.editor = editor]
     IN Commit(LoopAt(SetReviewPhase(InitReviewDocument(b0), "council_reviewing"), 1))

\* runFullCouncilReview from its entry to its first await.
RunFullCouncilReview ==
  /\ run.pc = "importing"
  /\ LET council == CouncilReviewers(reviewers, run.reviewerIds)
         editor == GetEditorReviewer(reviewers)
         b0 == [Bundle EXCEPT !.run.council = council, !.run.editor = editor]
     IN IF council = <<>>
        THEN Commit([b0 EXCEPT !.run.pc = "done"])
        ELSE Commit(LoopAt(SetReviewPhase(InitReviewDocument(b0), "council_reviewing"), 1))

\* A caller starts a session and runs runReviewPipeline to its first await.
RunReviewPipeline ==
  /\ run.pc = "ready"
  /\ GetEnabledReviewers(reviewers) # <<>>
  /\ LET ids == GetEnabledReviewers(reviewers)
         enabled == EnabledReviewers(reviewers, ids)
         b1 == StartReview(Bundle, ids)
         b2 == [b1 EXCEPT !.run.mode = "pipeline", !.run.reviewerIds = ids,
                          !.run.council = enabled]
     IN IF enabled = <<>>
        THEN Commit([b2 EXCEPT !.run.pc = "done"])
        ELSE Commit(LoopAt(b2, 1))

\* The gateway answers the /api/generate call of reviewer r; the loop goes on.
ReviewerSettles ==
  /\ run.pc = "reviewing"
  /\ \E r \in run.inflight, out \in Outcomes :
       LET b1 == LoopBody(Bundle, r, out)
       IN IF b1.run.inflight = {}
          THEN Commit(LoopAt(b1, b1.run.idx + 1))
          ELSE Commit(b1)

\* The gateway answers the synthesis call: setEditorSynthesis when
\* runEditorSynthesis returns, the catch when it throws; then phase 3.
SynthesisSettles ==
  /\ run.pc = "synthesizing"
  /\ \E resp \in SynthesisResponses :
       LET res == RunEditorSynthesisFinish(run.editor, resp)
       IN IF res.threw
          THEN Commit(SynthesisFailed(Bundle))
          ELSE Commit(UserDeciding(SetEditorSynthesis(
                        [Bundle EXCEPT !.hist.synthReturned = TRUE], res.value)))

\* The user presses Cancel Review (shown while isReviewing).
CancelReview ==
  /\ store.isReviewing
  /\ store' = CancelStore(store)
  /\ hist' = [hist EXCEPT !.cancelled = TRUE,
                          !.cancelPc = run.pc,
                          !.callsAtCancel = Len(hist.calls),
                          !.phasesAtCancel = Len(hist.phaseLog)]
  /\ UNCHANGED <<reviewers, run, mmVars, parseVars, sideVars>>

\* A caller starts a session and runs runReviewPipelineParallel to its await:
\* enabledReviewers.map calls runReviewer for every reviewer, each up to its fetch.
RunReviewPipelineParallel ==
  /\ run.pc = "ready"
  /\ GetEnabledReviewers(reviewers) # <<>>
  /\ LET ids == GetEnabledReviewers(reviewers)
         enabled == EnabledReviewers(reviewers, ids)
         b1 == StartReview(Bundle, ids)
         b2 == [b1 EXCEPT !.run.mode = "parallel", !.run.reviewerIds = ids,
                          !.run.council = enabled]
     IN IF enabled = <<>>
        THEN Commit([b2 EXCEPT !.run.pc = "done"])
        ELSE Commit([StartAll(b2, enabled, 1..Len(enabled)) EXCEPT !.run.pc = "all_settled"])

\* The gateway answers the /api/generate call of reviewer r; Promise.allSettled
\* resolves with the last of them.
TaskSettles ==
  /\ run.pc = "all_settled"
  /\ \E r \in run.inflight, out \in Outcomes :
       LET b1 == TaskSettled(Bundle, r, out)
       IN IF b1.run.inflight = {}
          THEN Commit(AfterAllSettled(b1))
          ELSE Commit(b1)

Init ==
  /\ reviewers \in [ReviewerIds -> ReviewerRec]
  /\ store = InitStore
  /\ run = InitRun
  /\ hist = InitHist
  /\ gw = IdleGateway
  /\ mm = IdleManager
  /\ parser = IdleParser
  /\ SideIdle

Next ==
  \/ HandleStartReview
  \/ RunFullCouncilReview
  \/ RunReviewPipeline
  \/ ReviewerSettles
  \/ SynthesisSettles
  \/ CancelReview

Spec == Init /\ [][Next]_vars

\* The same system with the one step the code takes on its own guaranteed: once
\* the dynamic import has resolved, runFullCouncilReview runs. When the gateway
\* answers a request is the gateway's affair, and no step of the code stands in
\* for an answer that does not come: fetch is called without a signal.
SpecLive == Init /\ [][Next]_vars /\ WF_vars(RunFullCouncilReview)

\* The parallel mode of the review: runReviewPipelineParallel and the user.
NextParallel ==
  \/ RunReviewPipelineParallel
  \/ TaskSettles
  \/ CancelReview

\* reviewers.filter(r => reviewerIds.includes(r.id)) is all the run reads of
\* the reviewers, and isEditor is not read at all: the reviewers it leaves out
\* are taken with one model, and all of them as council members.
InitParallel ==
  /\ Init
  /\ \A r \in ReviewerIds : ~reviewers[r].isEditor
  /\ \A r \in ReviewerIds : ~reviewers[r].enabled => reviewers[r].model = "A"

SpecParallel == InitParallel /\ [][NextParallel]_vars

\* ------------------------------------------------- modelManager
MaxEnsureCalls == 2

\* What the gateway does with a GET /api/ps: a listing, or the connection is
\* refused, the status is non-2xx, or the body is not JSON.
ListingOutcomes == {"ok", "refused", "not_ok", "malformed"}

\* What the gateway does with the load request; its body is not read.
LoadOutcomes == {"ok", "refused", "not_ok"}

\* getLoadedModels(): the names /api/ps lists, [] when the request fails
\* (every failure is caught inside).
GetLoadedModels(out) == IF out = "ok" THEN gw.resident ELSE {}

Request(op, n) == [op |-> op, name |-> n]

\* setModelLoading(name, status)
SetModelLoading(m, n, status) == [m EXCEPT !.status[n] = status]

Return(m, result) == [m EXCEPT !.pc = "returned", !.result = result]

\* LoadFailed without the catch: the error leaves loadModel and ensureModelLoaded.
LoadFailedRethrows(m) == [m EXCEPT !.pc = "threw", !.loadFailed = TRUE]

\* loadModel's catch: status error, return false.
LoadFailed(m) ==
  [Return(SetModelLoading(m, m.target, "error"), FALSE) EXCEPT !.loadFailed = TRUE]

\* unloadModel(n) has returned to ensureModelLoaded's loop.
UnloadReturned(m, n) == [m EXCEPT !.log = Append(@, Request("evict_returned", n))]

\* unloadModel(n) up to its fetch: status unloading, keep_alive: 0 request issued.
UnloadStart(m, n) ==
  [SetModelLoading(m, n, "unloading") EXCEPT
     !.pc = "unload_fetch", !.cur = n, !.todo = @ \ {n},
     !.log = Append(@, Request("evict", n))]

\* AfterUnload that leaves the loop after the first model.
AfterUnloadFirstOnly(m) == {[m EXCEPT !.pc = "ensure_wait"]}

\* ensureModelLoaded: `for (const model of loaded) await unloadModel(model.name)`,
\* then the one second wait. The listing order is the gateway's.
AfterUnload(m) ==
  IF m.todo = {}
  THEN {[m EXCEPT !.pc = "ensure_wait"]}
  ELSE {UnloadStart(m, n) : n \in m.todo}

\* loadModel up to isModelLoaded's /api/ps request.
LoadStart(m) ==
  [SetModelLoading(m, m.target, "loading") EXCEPT
     !.pc = "load_ps", !.log = Append(@, Request("ps", NoName))]

\* TargetLoaded without the startsWith alternative.
TargetLoadedExactOnly(loaded, wanted) == wanted \in loaded

\* loaded.find(m => m.name === modelName || m.name.startsWith(`${modelName}:`))
TargetLoaded(loaded, wanted) == \E l \in loaded : Matches(l, wanted)

\* ensureModelLoaded that skips unloading the other models.
ToUnloadNothing(loaded) == {}

\* ensureModelLoaded unloads every model of the listing.
ToUnload(loaded) == loaded

\* ensureModelLoaded(modelName) is called: getLoadedModels() requests /api/ps.
EnsureModelLoaded ==
  /\ mm.pc \in {"idle", "returned"}
  /\ mm.callsLeft > 0
  /\ \E target \in ModelNames :
       mm' = [mm EXCEPT !.pc = "ensure_ps", !.target = target, !.loaded = {},
                        !.todo = {}, !.cur = NoName, !.result = FALSE, !.fast = FALSE,
                        !.listedOk = FALSE, !.evictMissed = FALSE, !.loadFailed = FALSE,
                        !.repeatsFast = (mm.pc = "returned" /\ mm.fast /\ mm.target = target),
                        !.residentAtCall = gw.resident,
                        !.log = <<Request("ps", NoName)>>,
                        !.callsLeft = @ - 1]
  /\ UNCHANGED <<gw, reviewVars, parseVars, sideVars>>

\* The listing arrives: fast path, or start unloading, or go on to load.
EnsureListed ==
  /\ mm.pc = "ensure_ps"
  /\ \E out \in ListingOutcomes :
       LET loaded == GetLoadedModels(out)
           m1 == [mm EXCEPT !.loaded = loaded, !.listedOk = (out = "ok"),
                            !.todo = ToUnload(loaded)]
       IN IF TargetLoaded(loaded, mm.target)
          THEN mm' = [Return(m1, TRUE) EXCEPT !.fast = TRUE, !.todo = {}]
          ELSE IF m1.todo # {}
               THEN mm' \in AfterUnload(m1)
               ELSE mm' = LoadStart(m1)
  /\ UNCHANGED <<gw, reviewVars, parseVars, sideVars>>

\* The keep_alive: 0 request is answered: 2xx (the model is unloaded), non-2xx
\* (only warned about), or the fetch throws (unloadModel returns false).
UnloadResponds ==
  /\ mm.pc = "unload_fetch"
  /\ \E out \in {"ok", "notok", "throw"} :
       /\ gw' = IF out = "ok" THEN [gw EXCEPT !.resident = @ \ {mm.cur}] ELSE gw
       /\ LET m1 == [mm EXCEPT !.evictMissed = @ \/ out # "ok"]
          IN IF out = "throw"
             THEN mm' \in AfterUnload(UnloadReturned(SetModelLoading(m1, mm.cur, "error"), mm.cur))
             ELSE mm' = [m1 EXCEPT !.pc = "unload_wait"]
  /\ UNCHANGED <<reviewVars, parseVars, sideVars>>

\* unloadModel: the 500 ms wait is over, isModelLoaded requests /api/ps.
UnloadSettled ==
  /\ mm.pc = "unload_wait"
  /\ mm' = [mm EXCEPT !.pc = "unload_verify", !.log = Append(@, Request("ps", NoName))]
  /\ UNCHANGED <<gw, reviewVars, parseVars, sideVars>>

\* unloadModel: isModelLoaded's listing arrives; a model still listed is only
\* warned about, whatever the listing says unloadModel returns true.
UnloadVerified ==
  /\ mm.pc = "unload_verify"
  /\ \E out \in ListingOutcomes :
       mm' \in AfterUnload(UnloadReturned(SetModelLoading(mm, mm.cur, "loading"), mm.cur))
  /\ UNCHANGED <<gw, reviewVars, parseVars, sideVars>>

\* ensureModelLoaded: the one second wait is over, loadModel starts.
EnsureSettled ==
  /\ mm.pc = "ensure_wait"
  /\ mm' = LoadStart(mm)
  /\ UNCHANGED <<gw, reviewVars, parseVars, sideVars>>

\* loadModel: already loaded, or the one-token /api/generate request is issued.
LoadListed ==
  /\ mm.pc = "load_ps"
  /\ \E out \in ListingOutcomes :
       IF \E l \in GetLoadedModels(out) : Matches(l, mm.target)
       THEN mm' = Return(SetModelLoading(mm, mm.target, "loaded"), TRUE)
       ELSE mm' = [mm EXCEPT !.pc = "load_fetch",
                             !.log = Append(@, Request("load", mm.target))]
  /\ UNCHANGED <<gw, reviewVars, parseVars, sideVars>>

\* The load request is answered: 2xx (the model is resident now) or a failure.
LoadResponds ==
  /\ mm.pc = "load_fetch"
  /\ \E out \in LoadOutcomes :
       IF out = "ok"
       THEN /\ gw' = [gw EXCEPT !.resident = @ \cup {Canon(mm.target)}]
            /\ mm' = [SetModelLoading(mm, mm.target, "loaded") EXCEPT
                        !.pc = "load_refresh", !.log = Append(@, Request("ps", NoName))]
       ELSE /\ gw' = gw
            /\ mm' = LoadFailed(mm)
  /\ UNCHANGED <<reviewVars, parseVars, sideVars>>

\* loadModel: setLoadedModels(listing), return true.
LoadRefreshed ==
  /\ mm.pc = "load_refresh"
  /\ \E out \in ListingOutcomes :
       mm' = Return([mm EXCEPT !.loadedModels = GetLoadedModels(out)], TRUE)
  /\ UNCHANGED <<gw, reviewVars, parseVars, sideVars>>

InitMM ==
  /\ reviewers = [r \in ReviewerIds |-> [model |-> "A", isEditor |-> FALSE, enabled |-> FALSE]]
  /\ store = InitStore
  /\ run = InitRun
  /\ hist = InitHist
  /\ gw \in [resident : SUBSET GwNames]
  /\ mm = [IdleManager EXCEPT !.callsLeft = MaxEnsureCalls]
  /\ parser = IdleParser
  /\ SideIdle

NextMM ==
  \/ EnsureModelLoaded
  \/ EnsureListed
  \/ UnloadResponds
  \/ UnloadSettled
  \/ UnloadVerified
  \/ EnsureSettled
  \/ LoadListed
  \/ LoadResponds
  \/ LoadRefreshed

SpecMM == InitMM /\ [][NextMM]_vars

\* ------------------------------------------------- parseFeedback
\* A value an operator uses more than once is the argument of a local operator;
\* scans over a response are sets and CHOOSE, not one recursion per character.
\* A string is the sequence of its characters, a character a one-character
\* string. A response of the model is built from at most MaxItems items.
MaxItems == 2

Quote == "\""

Newline == "\n"

DigitChars == <<"0", "1", "2", "3", "4", "5", "6", "7", "8", "9">>

UpperCase == <<"A", "B", "C", "D", "E", "F", "G", "H", "I", "J", "K", "L", "M", "N", "O", "P", "Q", "R", "S", "T", "U", "V", "W", "X", "Y", "Z">>

LowerCase == <<"a", "b", "c", "d", "e", "f", "g", "h", "i", "j", "k", "l", "m", "n", "o", "p", "q", "r", "s", "t", "u", "v", "w", "x", "y", "z">>

\* The three characters the third line pattern starts with in the source file.
BulletLiteral == <<"U+201A", "U+00C4", "U+00A2">>

\* \s
IsWs(c) == c \in {" ", Newline}

\* \d
IsDigit(c) == \E i \in 1..Len(DigitChars) : DigitChars[i] = c

DigitVal(c) == (CHOOSE i \in 1..Len(DigitChars) : DigitChars[i] = c) - 1

\* The least number of a set of numbers.
Min(S) == CHOOSE j \in S : \A m \in S : j <= m

\* The first position from i on that holds no white space (Len + 1 when none).
SkipWs(cs, i) ==
  IF i > Len(cs) THEN i
  ELSE CHOOSE j \in i..Len(cs) + 1 :
         /\ j > Len(cs) \/ ~IsWs(cs[j])
         /\ \A m \in i..j - 1 : IsWs(cs[m])

\* The first position from i on that holds no digit.
SkipDigits(cs, i) ==
  IF i > Len(cs) THEN i
  ELSE CHOOSE j \in i..Len(cs) + 1 :
         /\ j > Len(cs) \/ ~IsDigit(cs[j])
         /\ \A m \in i..j - 1 : IsDigit(cs[m])

\* The first position from i on that holds c (Len + 1 when none).
FindChar(cs, c, i) ==
  IF i > Len(cs) THEN i
  ELSE CHOOSE j \in i..Len(cs) + 1 :
         /\ j > Len(cs) \/ cs[j] = c
         /\ \A m \in i..j - 1 : cs[m] # c

\* The first position from i on that holds a line break (Len + 1 when none).
LineEnd(cs, i) == FindChar(cs, Newline, i)

\* Does the string w start at position i of cs?
StartsAt(cs, w, i) ==
  /\ i + Len(w) - 1 <= Len(cs)
  /\ SubSeq(cs, i, i + Len(w) - 1) = w

\* String.prototype.includes
Includes(cs, w) == \E i \in 1..Len(cs) : StartsAt(cs, w, i)

RECURSIVE ParseInt(_, _)
\* parseInt(digits, 10), with acc the value of the digits read so far.
ParseInt(ds, acc) ==
  IF ds = <<>> THEN acc ELSE ParseInt(Tail(ds), 10 * acc + DigitVal(ds[1]))

\* The last position up to i that holds no white space (0 when none).
LastNonWs(cs, i) ==
  CHOOSE j \in 0..i :
    /\ j = 0 \/ ~IsWs(cs[j])
    /\ \A m \in j + 1..i : IsWs(cs[m])

\* String.prototype.trim
Trim(cs) == SubSeq(cs, SkipWs(cs, 1), LastNonWs(cs, Len(cs)))

\* String.prototype.toLowerCase
ToLowerCase(cs) ==
  [i \in 1..Len(cs) |->
     IF \E k \in 1..Len(UpperCase) : UpperCase[k] = cs[i]
     THEN LowerCase[CHOOSE k \in 1..Len(UpperCase) : UpperCase[k] = cs[i]]
     ELSE cs[i]]

\* String.prototype.slice(0, n)
Slice(cs, n) == SubSeq(cs, 1, IF Len(cs) < n THEN Len(cs) ELSE n)

RECURSIVE Join(_, _)
\* Array.prototype.join: the strings of ss with sep between them.
Join(ss, sep) ==
  IF ss = <<>> THEN <<>>
  ELSE IF Len(ss) = 1 THEN ss[1]
  ELSE ss[1] \o sep \o Join(Tail(ss), sep)

\* ---- JSON values: a number, a string, or no value (undefined)
JNum(n) == [t |-> "num", n |-> n, s |-> <<>>]

JStr(s) == [t |-> "str", n |-> 0, s |-> s]

JAbsent == [t |-> "absent", n |-> 0, s |-> <<>>]

\* JavaScript's falsy values among these: undefined, 0 and ''.
Falsy(v) == v.t = "absent" \/ (v.t = "num" /\ v.n = 0) \/ (v.t = "str" /\ v.s = <<>>)

\* v || d
OrElse(v, d) == IF Falsy(v) THEN d ELSE v

KeyLine == <<"l", "i", "n", "e">>

KeyType == <<"t", "y", "p", "e">>

KeyText == <<"t", "e", "x", "t">>

KeyComment == <<"c", "o", "m", "m", "e", "n", "t">>

KeySuggestion == <<"s", "u", "g", "g", "e", "s", "t", "i", "o", "n">>

\* An object without any of the fields parseFeedback reads.
EmptyItem ==
  [line |-> JAbsent, type |-> JAbsent, text |-> JAbsent, comment |-> JAbsent,
   suggestion |-> JAbsent]

\* ---- the JSON text of a value, an object, an array of objects
RenderValue(v) ==
  IF v.t = "num" THEN <<DigitChars[v.n + 1]>> ELSE <<Quote>> \o v.s \o <<Quote>>

RenderField(key, v) ==
  IF v.t = "absent" THEN <<>>
  ELSE <<<<Quote>> \o key \o <<Quote, ":">> \o RenderValue(v)>>

RenderItem(item) ==
  <<"{">>
  \o Join(RenderField(KeyLine, item.line) \o RenderField(KeyType, item.type)
          \o RenderField(KeyText, item.text) \o RenderField(KeyComment, item.comment)
          \o RenderField(KeySuggestion, item.suggestion), <<",">>)
  \o <<"}">>

RenderArray(items, pad) ==
  <<"[">> \o pad \o Join([i \in 1..Len(items) |-> RenderItem(items[i])], <<",">> \o pad)
  \o pad \o <<"]">>

\* ---- JSON.parse, for the JSON texts that can arise here: an array of objects
\* whose values are numbers and strings without escapes.
At(cs, i) == IF i \in 1..Len(cs) THEN cs[i] ELSE "EOF"

NoParse == [ok |-> FALSE, key |-> <<>>, v |-> JAbsent, item |-> EmptyItem, items |-> <<>>, next |-> 0]

ParseJsonString(cs, i) ==
  LET Closed(e) ==
        IF At(cs, i) = Quote /\ e <= Len(cs)
        THEN [NoParse EXCEPT !.ok = TRUE, !.v = JStr(SubSeq(cs, i + 1, e - 1)), !.next = e + 1]
        ELSE NoParse
  IN Closed(FindChar(cs, Quote, i + 1))

ParseJsonValue(cs, i) ==
  LET Number(k) ==
        [NoParse EXCEPT !.ok = TRUE, !.v = JNum(ParseInt(SubSeq(cs, i, k - 1), 0)), !.next = k]
  IN IF IsDigit(At(cs, i)) THEN Number(SkipDigits(cs, i)) ELSE ParseJsonString(cs, i)

ParseJsonField(cs, i) ==
  LET Member(k, v) ==
        IF k.ok /\ At(cs, k.next) = ":" /\ v.ok THEN [v EXCEPT !.key = k.v.s] ELSE NoParse
      Keyed(k) == Member(k, ParseJsonValue(cs, k.next + 1))
  IN Keyed(ParseJsonString(cs, i))

SetField(item, key, v) ==
  IF key = KeyLine THEN [item EXCEPT !.line = v]
  ELSE IF key = KeyType THEN [item EXCEPT !.type = v]
  ELSE IF key = KeyText THEN [item EXCEPT !.text = v]
  ELSE IF key = KeyComment THEN [item EXCEPT !.comment = v]
  ELSE IF key = KeySuggestion THEN [item EXCEPT !.suggestion = v]
  ELSE item

RECURSIVE ParseJsonFields(_, _, _)
ParseJsonFields(cs, i, item) ==
  LET Following(f, item1) ==
        IF ~f.ok THEN NoParse
        ELSE IF At(cs, f.next) = "," THEN ParseJsonFields(cs, f.next + 1, item1)
        ELSE IF At(cs, f.next) = "}"
             THEN [NoParse EXCEPT !.ok = TRUE, !.item = item1, !.next = f.next + 1]
        ELSE NoParse
      Assigned(f) == Following(f, SetField(item, f.key, f.v))
  IN Assigned(ParseJsonField(cs, i))

ParseJsonObject(cs, i) ==
  IF At(cs, i) # "{" THEN NoParse
  ELSE IF At(cs, i + 1) = "}"
       THEN [NoParse EXCEPT !.ok = TRUE, !.item = EmptyItem, !.next = i + 2]
  ELSE ParseJsonFields(cs, i + 1, EmptyItem)

\* The element null: reading a property of it throws a TypeError.
NullItem ==
  [f \in {"line", "type", "text", "comment", "suggestion"} |-> [t |-> "null", n |-> 0, s |-> <<>>]]

\* An element of the array: an object, null, or a number, which has none of
\* the properties.
ParseJsonElement(cs, i) ==
  IF StartsAt(cs, <<"n", "u", "l", "l">>, i)
  THEN [NoParse EXCEPT !.ok = TRUE, !.item = NullItem, !.next = i + 4]
  ELSE IF IsDigit(At(cs, i))
  THEN [NoParse EXCEPT !.ok = TRUE, !.item = EmptyItem, !.next = SkipDigits(cs, i)]
  ELSE ParseJsonObject(cs, i)

RECURSIVE ParseJsonItems(_, _, _)
ParseJsonItems(cs, i, items) ==
  LET Following(o, k) ==
        IF ~o.ok THEN NoParse
        ELSE IF At(cs, k) = "," THEN ParseJsonItems(cs, k + 1, Append(items, o.item))
        ELSE IF At(cs, k) = "]"
             THEN [NoParse EXCEPT !.ok = TRUE, !.items = Append(items, o.item), !.next = k + 1]
        ELSE NoParse
      Element(o) == Following(o, SkipWs(cs, o.next))
  IN Element(ParseJsonElement(cs, SkipWs(cs, i)))

\* JSON.parse(text): ok is FALSE where JSON.parse throws.
JsonParse(cs) ==
  LET Whole(j, r) ==
        IF At(cs, j) = "[" /\ r.ok /\ SkipWs(cs, r.next) = Len(cs) + 1 THEN r ELSE NoParse
      Array(j) == Whole(j, ParseJsonItems(cs, j + 1, <<>>))
  IN Array(SkipWs(cs, 1))

\* ---- response.match(/\[\s*\{[\s\S]*?\}\s*\]/)
\* `}\s*]` starts at position k.
ClosesAt(cs, k) == cs[k] = "}" /\ At(cs, SkipWs(cs, k + 1)) = "]"

\* The end of the first `}\s*]` whose brace is at position k or later (0 when
\* none): where the lazy [\s\S]*? stops.
FindClose(cs, k) ==
  LET First(S) == IF S = {} THEN 0 ELSE SkipWs(cs, Min(S) + 1)
  IN First({j \in k..Len(cs) : ClosesAt(cs, j)})

\* The end of the match of the whole pattern from position i (0 when none).
MatchEnd(cs, i) ==
  LET Open(j) == IF cs[i] = "[" /\ At(cs, j) = "{" THEN FindClose(cs, j + 1) ELSE 0
  IN Open(SkipWs(cs, i + 1))

\* The leftmost match, lazily extended.
FindJsonArray(cs) ==
  LET From(i) == [found |-> TRUE, text |-> SubSeq(cs, i, MatchEnd(cs, i))]
      First(S) == IF S = {} THEN [found |-> FALSE, text |-> <<>>] ELSE From(Min(S))
  IN First({i \in 1..Len(cs) : MatchEnd(cs, i) # 0})

\* ---- inferCommentType
InferCommentType(content) ==
  LET lower == ToLowerCase(content)
  IN IF Includes(lower, <<"e", "r", "r", "o", "r">>) \/ Includes(lower, <<"i", "n", "c", "o", "r", "r", "e", "c", "t">>)
        \/ Includes(lower, <<"w", "r", "o", "n", "g">>)
     THEN <<"e", "r", "r", "o", "r">>
     ELSE IF Includes(lower, <<"w", "a", "r", "n", "i", "n", "g">>) \/ Includes(lower, <<"c", "a", "u", "t", "i", "o", "n">>)
             \/ Includes(lower, <<"c", "a", "r", "e", "f", "u", "l">>)
     THEN <<"w", "a", "r", "n", "i", "n", "g">>
     ELSE IF Includes(lower, <<"g", "o", "o", "d">>) \/ Includes(lower, <<"g", "r", "e", "a", "t">>)
             \/ Includes(lower, <<"e", "x", "c", "e", "l", "l", "e", "n", "t">>) \/ Includes(lower, <<"w", "e", "l", "l">>)
     THEN <<"p", "r", "a", "i", "s", "e">>
     ELSE IF Includes(lower, <<"?">>) \/ Includes(lower, <<"u", "n", "c", "l", "e", "a", "r">>)
             \/ Includes(lower, <<"c", "l", "a", "r", "i", "f", "y">>)
     THEN <<"q", "u", "e", "s", "t", "i", "o", "n">>
     ELSE KeySuggestion

\* ---- the line patterns
WordLine == <<"L", "i", "n", "e">>

NoMatch == [ok |-> FALSE, digits |-> <<>>, content |-> <<>>, next |-> 0]

\* The last position of p..i that holds no line break (0 when none).
LastOnLine(cs, i, p) ==
  IF \E j \in p..i : cs[j] # Newline
  THEN CHOOSE j \in p..i : cs[j] # Newline /\ \A m \in j + 1..i : cs[m] = Newline
  ELSE 0

\* `\s*(.+)` from position p on: the white space is skipped greedily and the
\* group takes the rest of the line; when only white space follows, the group
\* takes the last character that is not a line break.
RestOfLine(cs, p, digits) ==
  LET Group(m, e, t) ==
        IF m <= Len(cs)
        THEN [ok |-> TRUE, digits |-> digits, content |-> SubSeq(cs, m, e - 1), next |-> e]
        ELSE IF t # 0
        THEN [ok |-> TRUE, digits |-> digits, content |-> <<cs[t]>>, next |-> t + 1]
        ELSE NoMatch
      From(m) == Group(m, LineEnd(cs, m), LastOnLine(cs, Len(cs), p))
  IN From(SkipWs(cs, p))

\* /(?:line|Line)\s*(\d+):\s*(.+)/ matched at position i.
LineColonAt(cs, i) ==
  LET Number(j, k) ==
        IF (StartsAt(cs, KeyLine, i) \/ StartsAt(cs, WordLine, i)) /\ k > j /\ At(cs, k) = ":"
        THEN RestOfLine(cs, k + 1, SubSeq(cs, j, k - 1))
        ELSE NoMatch
      Word(j) == Number(j, SkipDigits(cs, j))
  IN Word(SkipWs(cs, i + Len(WordLine)))

\* /(\d+)\.\s*(.+)/ matched at position i.
NumberDotAt(cs, i) ==
  LET Number(k) ==
        IF k > i /\ At(cs, k) = "." THEN RestOfLine(cs, k + 1, SubSeq(cs, i, k - 1)) ELSE NoMatch
  IN Number(SkipDigits(cs, i))

\* The third pattern, <bullet>\s*(?:Line\s*)?(\d+)?:?\s*(.+), matched at
\* position i (each optional part taken when it is there).
BulletAt(cs, i) ==
  LET Number(j2, k) ==
        IF StartsAt(cs, BulletLiteral, i)
        THEN RestOfLine(cs, IF At(cs, k) = ":" THEN k + 1 ELSE k, SubSeq(cs, j2, k - 1))
        ELSE NoMatch
      Word(j2) == Number(j2, SkipDigits(cs, j2))
      Bullet(j) == Word(IF StartsAt(cs, WordLine, j) THEN SkipWs(cs, j + Len(WordLine)) ELSE j)
  IN Bullet(SkipWs(cs, i + Len(BulletLiteral)))

\* linePatterns[p] matched at position i.
PatternAt(p, cs, i) ==
  IF p = 1 THEN LineColonAt(cs, i)
  ELSE IF p = 2 THEN NumberDotAt(cs, i)
  ELSE BulletAt(cs, i)

\* The ParsedFeedback pushed for one match (content is already trimmed).
LineFeedback(digits, content) ==
  [line |-> JNum(IF digits # <<>> THEN ParseInt(digits, 0) ELSE 1),
   type |-> JStr(InferCommentType(content)),
   text |-> JStr(<<>>),
   comment |-> JStr(content),
   suggestion |-> JAbsent]

\* LongContent with the test `content.length > 0`.
AnyContent(content) == Len(content) > 0

\* if (content.length > 10): a match whose trimmed text is no longer is dropped.
LongContent(content) == Len(content) > 10

\* pattern.exec(response) with lastIndex i - 1: where the next match starts (0: null).
Exec(p, cs, i) ==
  LET First(S) == IF S = {} THEN 0 ELSE Min(S)
  IN First({j \in i..Len(cs) : PatternAt(p, cs, j).ok})

RECURSIVE ExecAll(_, _, _, _)
\* while ((match = pattern.exec(response)) !== null) { ... }
ExecAll(p, cs, i, feedback) ==
  LET Push(m, content) ==
        ExecAll(p, cs, m.next,
                IF LongContent(content)
                THEN Append(feedback, LineFeedback(m.digits, content))
                ELSE feedback)
      Match(m) == Push(m, Trim(m.content))
      Found(j) == IF j = 0 THEN feedback ELSE Match(PatternAt(p, cs, j))
  IN Found(Exec(p, cs, i))

RECURSIVE LinePatterns(_, _)
\* for (const pattern of linePatterns) { ...; if (feedback.length > 0) break; }
LinePatterns(cs, p) ==
  LET Tried(feedback) == IF feedback # <<>> THEN feedback ELSE LinePatterns(cs, p + 1)
  IN IF p > 3 THEN <<>> ELSE Tried(ExecAll(p, cs, 1, <<>>))

\* parsed.map(item => ({ line: item.line || 1, type: item.type || 'suggestion', ... }))
ItemFeedback(item) ==
  [line |-> OrElse(item.line, JNum(1)),
   type |-> OrElse(item.type, JStr(KeySuggestion)),
   text |-> OrElse(item.text, JStr(<<>>)),
   comment |-> OrElse(item.comment, JStr(<<>>)),
   suggestion |-> item.suggestion]

\* GeneralFeedback without slice(0, 500).
GeneralFeedbackWhole(response) ==
  [line |-> JNum(1), type |-> JStr(KeySuggestion), text |-> JStr(<<>>),
   comment |-> JStr(Trim(response)), suggestion |-> JAbsent]

\* The general comment made of a response no strategy could read.
GeneralFeedback(response) ==
  [line |-> JNum(1), type |-> JStr(KeySuggestion), text |-> JStr(<<>>),
   comment |-> JStr(Slice(Trim(response), 500)), suggestion |-> JAbsent]

\* A call that returns feedback; caught tells that its try block has thrown.
Returned(feedback, caught) == [threw |-> FALSE, caught |-> caught, feedback |-> feedback]

\* CaughtJson with a catch block that throws the exception again.
CaughtJsonRethrown(rest) == [threw |-> TRUE, caught |-> TRUE, feedback |-> <<>>]

\* catch (e) { console.warn(...) }: the call goes on with the line patterns.
CaughtJson(rest) == Returned(rest, TRUE)

\* parseFeedback(response, reviewer): the try block throws when JSON.parse does
\* and when parsed.map reads a property of a null element.
ParseFeedback(response) ==
  LET Fallback(feedback) ==
        IF feedback # <<>> THEN feedback
        ELSE IF Len(Trim(response)) > 20 THEN <<GeneralFeedback(response)>>
        ELSE <<>>
      Mapped(parsed, rest) ==
        IF parsed.ok /\ \A i \in 1..Len(parsed.items) : parsed.items[i] # NullItem
        THEN Returned([i \in 1..Len(parsed.items) |-> ItemFeedback(parsed.items[i])], FALSE)
        ELSE CaughtJson(rest)
      Matched(jsonMatch, rest) ==
        IF jsonMatch.found THEN Mapped(JsonParse(jsonMatch.text), rest) ELSE Returned(rest, FALSE)
  IN Matched(FindJsonArray(response), Fallback(LinePatterns(response, 1)))

\* ---- the responses parseFeedback is called with
TextClaim == <<"U", "n", "v", "e", "r", "i", "f", "i", "e", "d", " ", "c", "l", "a", "i", "m">>

TextBrackets == <<"u", "s", "e", " ", "a", "[", "{", "k", "}", "]", " ", "h", "e", "r", "e">>

TextFix == <<"c", "i", "t", "e", " ", "i", "t">>

TypeError == <<"e", "r", "r", "o", "r">>

JsonItems ==
  {[line |-> l, type |-> ts[1], text |-> JAbsent, comment |-> JStr(c), suggestion |-> ts[2]] :
     l \in {JAbsent, JNum(0), JNum(2)},
     c \in {TextClaim, TextBrackets},
     ts \in {<<JAbsent, JAbsent>>, <<JStr(TypeError), JStr(TextFix)>>}}

Text8 == <<"F", "i", "x", " ", "t", "y", "p", "o">>

Text10 == <<"F", "i", "x", " ", "t", "y", "p", "o", "s", ".">>

Text11 == <<"F", "i", "x", " ", "t", "y", "p", "o", "s", "!", "!">>

TextWrong == <<"T", "h", "i", "s", " ", "i", "s", " ", "w", "r", "o", "n", "g", ".">>

TextProse == <<"L", "o", "o", "k", "s", " ", "f", "i", "n", "e", ".">>

\* A line of a response: "Line N: <text>", "N. <text>" or plain prose; n is the
\* number its digits num write.
LineItems ==
  {[shape |-> "line", word |-> wn[1], num |-> wn[2], n |-> wn[3], text |-> t] :
     wn \in {<<WordLine, <<"3">>, 3>>, <<KeyLine, <<"1", "2">>, 12>>},
     t \in {Text8, Text10, Text11, Text11 \o <<" ", " ">>, TextWrong}}
  \cup {[shape |-> "numbered", word |-> <<>>, num |-> <<"2">>, n |-> 2, text |-> t] :
          t \in {Text8, TextWrong}}
  \cup {[shape |-> "prose", word |-> <<>>, num |-> <<>>, n |-> 0, text |-> TextProse]}

RenderLine(l) ==
  IF l.shape = "line" THEN l.word \o <<" ">> \o l.num \o <<":", " ">> \o l.text
  ELSE IF l.shape = "numbered" THEN l.num \o <<".", " ">> \o l.text
  ELSE l.text

\* The sequences of 1 to n elements of S.
SeqsUpTo(S, n) == UNION {[1..k -> S] : k \in 1..n}

\* Responses with no JSON array and no line of a pattern: empty, white space
\* only, 20 and 21 characters (bare and padded), and more than 500 characters.
RawTexts ==
  {<<>>, <<" ", Newline, " ">>,
   <<"N", "o", "t", "h", "i", "n", "g", " ", "t", "o", " ", "a", "d", "d", " ", "h", "e", "r", "e", ".">>,
   <<" ", " ", "N", "o", "t", "h", "i", "n", "g", " ", "t", "o", " ", "a", "d", "d", " ", "h", "e", "r", "e", ".", "\n">>,
   <<"N", "o", "t", "h", "i", "n", "g", " ", "t", "o", " ", "a", "d", "d", " ", "t", "h", "e", "r", "e", ".">>,
   <<" ", "\n", "N", "o", "t", "h", "i", "n", "g", " ", "t", "o", " ", "a", "d", "d", " ", "t", "h", "e", "r", "e", ".", " ">>,
   [i \in 1..510 |-> "x"],
   <<" ">> \o [i \in 1..510 |-> IF i % 7 = 0 THEN " " ELSE "y"]}

\* Arrays that JSON.parse rejects or whose elements are not all objects, and an
\* array that is not closed.
OddArrays ==
  {<<"[", "{", "\"", "l", "i", "n", "e", "\"", ":", "2", ",", "\"", "c", "o", "m", "m", "e", "n", "t", "\"", ":", "\"", "U", "n", "v", "e", "r", "i", "f", "i", "e", "d", " ", "c", "l", "a", "i", "m", "\"", "}", ",", " ", "n", "u", "l", "l", ",", " ", "{", "\"", "l", "i", "n", "e", "\"", ":", "3", "}", "]">>,
   <<"[", "{", "\"", "l", "i", "n", "e", "\"", ":", "2", ",", "\"", "c", "o", "m", "m", "e", "n", "t", "\"", ":", "\"", "U", "n", "v", "e", "r", "i", "f", "i", "e", "d", " ", "c", "l", "a", "i", "m", "\"", "}", ",", " ", "5", ",", " ", "{", "\"", "l", "i", "n", "e", "\"", ":", "3", "}", "]">>,
   <<"[", "{", "\"", "l", "i", "n", "e", "\"", ":", "2", ",", "\"", "c", "o", "m", "m", "e", "n", "t", "\"", " ", "\"", "U", "n", "v", "e", "r", "i", "f", "i", "e", "d", " ", "c", "l", "a", "i", "m", "\"", "}", "]">>,
   <<"[", "{", "\"", "l", "i", "n", "e", "\"", ":", "2", ",", "}", "]">>,
   <<"[", "{", "\"", "l", "i", "n", "e", "\"", ":", "2", ",", "\"", "c", "o", "m", "m", "e", "n", "t", "\"", ":", "\"", "L", "i", "n", "e", " ", "4", ":", " ", "T", "h", "i", "s", " ", "i", "s", " ", "w", "r", "o", "n", "g", ".", "\"", "}", ",", " ", "n", "u", "l", "l", ",", " ", "{", "\"", "l", "i", "n", "e", "\"", ":", "3", "}", "]">>,
   <<"[", "{", "\"", "l", "i", "n", "e", "\"", ":", "2", ",", "\"", "c", "o", "m", "m", "e", "n", "t", "\"", ":", "\"", "U", "n", "v", "e", "r", "i", "f", "i", "e", "d", " ", "c", "l", "a", "i", "m", "\"", "}">>}

Sources ==
  {[kind |-> "json", items |-> items, pad |-> pad, lines |-> <<>>] :
     items \in SeqsUpTo(JsonItems, MaxItems), pad \in {<<>>, <<" ">>}}
  \cup {[kind |-> "lines", items |-> <<>>, pad |-> <<>>, lines |-> lines] :
          lines \in SeqsUpTo(LineItems, MaxItems)}
  \cup {[kind |-> "raw", items |-> <<>>, pad |-> <<>>,
         lines |-> <<[shape |-> "prose", word |-> <<>>, num |-> <<>>, n |-> 0, text |-> t]>>] :
          t \in RawTexts}
  \cup {[kind |-> "odd", items |-> <<>>, pad |-> <<>>,
         lines |-> <<[shape |-> "prose", word |-> <<>>, num |-> <<>>, n |-> 0, text |-> t]>>] :
          t \in OddArrays}

\* The text of a response.
Render(src) ==
  IF src.kind = "json" THEN RenderArray(src.items, src.pad)
  ELSE Join([i \in 1..Len(src.lines) |-> RenderLine(src.lines[i])], <<Newline>>)

\* runReviewer: parseFeedback(data.response || '', reviewer)
CallParseFeedback ==
  /\ parser.pc = "called"
  /\ LET Settled(r) ==
           [parser EXCEPT !.pc = IF r.threw THEN "threw" ELSE "returned",
                          !.feedback = r.feedback, !.caught = r.caught, !.threw = r.threw]
     IN parser' = Settled(ParseFeedback(parser.response))
  /\ UNCHANGED <<reviewVars, mmVars, sideVars>>

InitParse ==
  /\ reviewers = [r \in ReviewerIds |-> [model |-> "A", isEditor |-> FALSE, enabled |-> FALSE]]
  /\ store = InitStore
  /\ run = InitRun
  /\ hist = InitHist
  /\ gw = IdleGateway
  /\ mm = IdleManager
  /\ \E src \in Sources :
       parser = [IdleParser EXCEPT !.pc = "called", !.source = src, !.response = Render(src)]
  /\ SideIdle

NextParse == CallParseFeedback

SpecParse == InitParse /\ [][NextParse]_vars

\* ------------------------------------------------- the search route
\* app/api/search/route.ts: POST with engine perplexica. A result list is the
\* number of its results, at most MaxResults.
MaxResults == 2

\* What the route answers: NextResponse.json(...).
NoResponse == [status |-> 0, searchEngine |-> "none", results |-> 0, note |-> FALSE, aiSummary |-> FALSE]

ErrorResponse(status) == [NoResponse EXCEPT !.status = status, !.note = TRUE]

IdleSearch ==
  [pc |-> "idle", config |-> "none", perplexica |-> "none", searxng |-> "none",
   data |-> 0, response |-> NoResponse]

\* POST: request.json(), the engine test, searchPerplexica up to the first
\* fetch of getPerplexicaConfig. A body that is not JSON is caught by POST.
Post ==
  /\ search.pc = "idle"
  /\ \E body \in {"not_json", "perplexica", "other"} :
       search' =
         IF body = "not_json" THEN [search EXCEPT !.pc = "done", !.response = ErrorResponse(500)]
         ELSE IF body = "other" THEN [search EXCEPT !.pc = "done", !.response = ErrorResponse(400)]
         ELSE [search EXCEPT !.pc = "config"]
  /\ UNCHANGED <<reviewVars, mmVars, parseVars, convVars, wfVars, imgVars>>

\* getPerplexicaConfig: every failure is caught and gives the defaults; then
\* tryPerplexicaRequest is issued.
GetPerplexicaConfig ==
  /\ search.pc = "config"
  /\ \E out \in {"config", "models", "defaults"} :
       search' = [search EXCEPT !.pc = "perplexica", !.config = out]
  /\ UNCHANGED <<reviewVars, mmVars, parseVars, convVars, wfVars, imgVars>>

\* The answer of searchPerplexica when the Perplexica request has failed inside
\* its try block and the SearXNG fallback has not given a response.
FallbackFailed == [ErrorResponse(200) EXCEPT !.searchEngine = "perplexica"]

\* searchPerplexica from `await tryPerplexicaRequest(...)` on. The await is
\* before the try block: a rejected fetch (transport error, timeout of
\* AbortSignal.timeout) leaves searchPerplexica and is caught by POST.
TryPerplexicaRequest ==
  /\ search.pc = "perplexica"
  /\ \E out \in {"transport_error", "timeout", "not_ok", "no_body", "not_json", "stream", "json"},
        n \in 0..MaxResults, answer \in BOOLEAN :
       search' =
         IF out \in {"transport_error", "timeout"}
         THEN [search EXCEPT !.pc = "done", !.perplexica = out, !.response = ErrorResponse(500)]
         ELSE IF out \in {"stream", "json"}
         THEN [search EXCEPT !.pc = "done", !.perplexica = out,
                             !.response = [status |-> 200, searchEngine |-> "perplexica",
                                           results |-> n, note |-> FALSE, aiSummary |-> answer]]
         ELSE [search EXCEPT !.pc = "searxng", !.perplexica = out]
  /\ UNCHANGED <<reviewVars, mmVars, parseVars, convVars, wfVars, imgVars>>

\* The catch block of searchPerplexica: searchSearXNGDirect and what follows it
\* up to generateSearchSummary's fetch.
SearchSearXNGDirect ==
  /\ search.pc = "searxng"
  /\ \E out \in {"transport_error", "timeout", "not_ok", "not_json", "json"}, n \in 0..MaxResults :
       search' =
         IF out # "json"
         THEN [search EXCEPT !.pc = "done", !.searxng = out, !.response = FallbackFailed]
         ELSE IF n = 0
         THEN [search EXCEPT !.pc = "done", !.searxng = out, !.data = n,
                             !.response = [status |-> 200, searchEngine |-> "searxng",
                                           results |-> 0, note |-> TRUE, aiSummary |-> FALSE]]
         ELSE [search EXCEPT !.pc = "summary", !.searxng = out, !.data = n]
  /\ UNCHANGED <<reviewVars, mmVars, parseVars, convVars, wfVars, imgVars>>

\* generateSearchSummary returns the summary or null, and the fallback answers.
GenerateSearchSummary ==
  /\ search.pc = "summary"
  /\ \E summary \in BOOLEAN :
       search' = [search EXCEPT !.pc = "done",
                                !.response = [status |-> 200, searchEngine |-> "searxng",
                                              results |-> search.data, note |-> TRUE,
                                              aiSummary |-> summary]]
  /\ UNCHANGED <<reviewVars, mmVars, parseVars, convVars, wfVars, imgVars>>

InitSearch ==
  /\ reviewers = [r \in ReviewerIds |-> [model |-> "A", isEditor |-> FALSE, enabled |-> FALSE]]
  /\ store = InitStore
  /\ run = InitRun
  /\ hist = InitHist
  /\ gw = IdleGateway
  /\ mm = IdleManager
  /\ parser = IdleParser
  /\ search = IdleSearch
  /\ conv = Idle /\ synth = Idle /\ wf = Idle /\ img = Idle

NextSearch ==
  \/ Post
  \/ GetPerplexicaConfig
  \/ TryPerplexicaRequest
  \/ SearchSearXNGDirect
  \/ GenerateSearchSummary

SpecSearch == InitSearch /\ [][NextSearch]_vars

\* ------------------------------------------------- runReviewer: comments
\* runReviewer turning one ParsedFeedback f into a ReviewComment, for a document
\* of at most MaxDocLines lines.
MaxDocLines == 2

\* inferSeverity without its tests of the type.
InferSeverityByContent(type, content) ==
  IF \E w \in {<<"c", "r", "i", "t", "i", "c", "a", "l">>, <<"m", "u", "s", "t">>, <<"i", "m", "m", "e", "d", "i", "a", "t", "e", "l", "y">>} :
       Includes(ToLowerCase(content), w)
  THEN "high"
  ELSE IF \E w \in {<<"s", "h", "o", "u", "l", "d">>, <<"c", "o", "n", "s", "i", "d", "e", "r">>, <<"m", "i", "g", "h", "t">>} :
            Includes(ToLowerCase(content), w)
  THEN "medium"
  ELSE "low"

\* inferSeverity(type, content)
InferSeverity(type, content) ==
  IF type = "error" THEN "high"
  ELSE IF type = "warning" THEN "medium"
  ELSE IF type = "praise" THEN "low"
  ELSE InferSeverityByContent(type, content)

\* content.split('\n')
Split(cs) ==
  LET nl == {i \in 1..Len(cs) : cs[i] = Newline}
      Nth(k) == CHOOSE i \in nl : Cardinality({j \in nl : j < i}) = k - 1
  IN [k \in 1..Cardinality(nl) + 1 |->
        SubSeq(cs, IF k = 1 THEN 1 ELSE Nth(k - 1) + 1,
                   IF k = Cardinality(nl) + 1 THEN Len(cs) ELSE Nth(k) - 1)]

\* getTextAtLine with lines[line - 1] || ''.
GetTextAtLineUnclamped(content, line) ==
  IF line \in 1..Len(Split(content)) THEN Split(content)[line] ELSE <<>>

\* getTextAtLine(content, line)
GetTextAtLine(content, line) ==
  LET At0(lines, i) == lines[i + 1]
      Clamped(lines) ==
        At0(lines, IF line - 1 > Len(lines) - 1
                   THEN Len(lines) - 1
                   ELSE IF line - 1 < 0 THEN 0 ELSE line - 1)
  IN Clamped(Split(content))

\* The feedback of a reviewer and the documents it is about: comments with the
\* severity their words stand for, the lines of a document.
ConvSources ==
  [line : -1..MaxDocLines + 2,
   type : {"error", "warning", "praise", "suggestion", "question", "Error"},
   comment : {[s |-> <<"C", "r", "i", "t", "i", "c", "a", "l", ":", " ", "y", "o", "u", " ", "m", "i", "g", "h", "t", " ", "r", "e", "p", "h", "r", "a", "s", "e", ".">>, level |-> "high"],
              [s |-> <<"I", "t", " ", "m", "i", "g", "h", "t", " ", "c", "o", "n", "f", "u", "s", "e", ";", " ", "f", "i", "x", " ", "I", "M", "M", "E", "D", "I", "A", "T", "E", "L", "Y">>, level |-> "high"],
              [s |-> <<"Y", "o", "u", " ", "S", "h", "o", "u", "l", "d", " ", "c", "u", "t", " ", "t", "h", "i", "s", ".">>, level |-> "medium"],
              [s |-> <<"L", "o", "o", "k", "s", " ", "f", "i", "n", "e", ".">>, level |-> "low"]},
   text : {<<>>, <<"q", "u", "o", "t", "e", "d">>},
   doc : SeqsUpTo({<<"I", "n", "t", "r", "o">>, <<>>, <<"B", "o", "d", "y", " ", "t", "e", "x", "t">>}, MaxDocLines)]

\* runReviewer: feedback.map((f) => { const comment = {...}; ... }) for one f.
ConvertFeedback ==
  /\ conv.pc = "called"
  /\ conv' =
       [conv EXCEPT
          !.pc = "done",
          !.comment =
            [startLine |-> conv.f.line,
             endLine |-> conv.f.line,
             originalText |-> IF conv.f.text # <<>> THEN conv.f.text
                              ELSE GetTextAtLine(conv.content, conv.f.line),
             type |-> conv.f.type,
             severity |-> InferSeverity(conv.f.type, conv.f.comment.s),
             comment |-> conv.f.comment.s,
             status |-> "pending"]]
  /\ UNCHANGED <<reviewVars, mmVars, parseVars, searchVars, synth, wfVars, imgVars>>

InitConv ==
  /\ reviewers = [r \in ReviewerIds |-> [model |-> "A", isEditor |-> FALSE, enabled |-> FALSE]]
  /\ store = InitStore
  /\ run = InitRun
  /\ hist = InitHist
  /\ gw = IdleGateway
  /\ mm = IdleManager
  /\ parser = IdleParser
  /\ \E f \in ConvSources :
       conv = [pc |-> "called", f |-> f, content |-> Join(f.doc, <<Newline>>),
               comment |-> [startLine |-> 0, endLine |-> 0, originalText |-> <<>>,
                            type |-> "none", severity |-> "none", comment |-> <<>>,
                            status |-> "none"]]
  /\ search = Idle /\ synth = Idle /\ wf = Idle /\ img = Idle

NextConv == ConvertFeedback

SpecConv == InitConv /\ [][NextConv]_vars

\* ------------------------------------------------- runEditorSynthesis: the text
\* runEditorSynthesis reading the editor's response text. A JSON object is the
\* sequence of its members; the value of a member is a number, a string or a
\* list of objects (t = "list", the objects in s). At most MaxChanges changes.
MaxChanges == 2

KeyAssessment == <<"o", "v", "e", "r", "a", "l", "l", "A", "s", "s", "e", "s", "s", "m", "e", "n", "t">>

KeyChanges == <<"p", "r", "i", "o", "r", "i", "t", "i", "z", "e", "d", "C", "h", "a", "n", "g", "e", "s">>

KeyPriority == <<"p", "r", "i", "o", "r", "i", "t", "y">>

KeyDescription == <<"d", "e", "s", "c", "r", "i", "p", "t", "i", "o", "n">>

\* object.key: the value of the last member of that name, undefined without one.
Member(members, key) ==
  LET Last(S) == IF S = {} THEN JAbsent ELSE members[CHOOSE i \in S : \A j \in S : j <= i].v
  IN Last({i \in 1..Len(members) : members[i].key = key})

RECURSIVE ParseJsonMembers(_, _, _)
RECURSIVE ParseJsonArray(_, _, _)
\* JSON.parse: the members of an object from position i on, after its brace.
ParseJsonMembers(cs, i, members) ==
  LET Following(key, v) ==
        IF ~v.ok THEN NoParse
        ELSE IF At(cs, v.next) = ","
        THEN ParseJsonMembers(cs, v.next + 1, Append(members, [key |-> key, v |-> v.v]))
        ELSE IF At(cs, v.next) = "}"
        THEN [NoParse EXCEPT !.ok = TRUE, !.next = v.next + 1,
                             !.items = Append(members, [key |-> key, v |-> v.v])]
        ELSE NoParse
      Valued(k) ==
        IF ~k.ok \/ At(cs, k.next) # ":" THEN NoParse
        ELSE Following(k.v.s, IF At(cs, k.next + 1) = "["
                              THEN ParseJsonArray(cs, k.next + 2, <<>>)
                              ELSE ParseJsonValue(cs, k.next + 1))
  IN IF At(cs, i) = "}" /\ members = <<>>
     THEN [NoParse EXCEPT !.ok = TRUE, !.next = i + 1]
     ELSE Valued(ParseJsonString(cs, i))

\* JSON.parse: the objects of a list from position i on, after its bracket.
ParseJsonArray(cs, i, objects) ==
  LET List(os, next) ==
        [NoParse EXCEPT !.ok = TRUE, !.next = next, !.v = [t |-> "list", n |-> 0, s |-> os]]
      Following(o) ==
        IF ~o.ok THEN NoParse
        ELSE IF At(cs, o.next) = "," THEN ParseJsonArray(cs, o.next + 1, Append(objects, o.items))
        ELSE IF At(cs, o.next) = "]" THEN List(Append(objects, o.items), o.next + 1)
        ELSE NoParse
  IN IF At(cs, i) = "]" /\ objects = <<>> THEN List(<<>>, i + 1)
     ELSE IF At(cs, i) # "{" THEN NoParse
     ELSE Following(ParseJsonMembers(cs, i + 1, <<>>))

\* responseText.match(/\{[\s\S]*\}/): from the first opening brace to the last
\* closing one.
FindJsonObject(cs) ==
  LET Match(open, close) ==
        IF \A i \in open : \A j \in close : j < i
        THEN [found |-> FALSE, text |-> <<>>]
        ELSE [found |-> TRUE,
              text |-> SubSeq(cs, Min(open), CHOOSE j \in close : \A k \in close : k <= j)]
  IN Match({i \in 1..Len(cs) : cs[i] = "{"}, {i \in 1..Len(cs) : cs[i] = "}"})

\* PrioritizedChange without `|| 'medium'` and `|| ''`.
PrioritizedChangeAsIs(c) ==
  [priority |-> Member(c, KeyPriority).s, description |-> Member(c, KeyDescription).s]

\* The callback of prioritizedChanges.map(...).
PrioritizedChange(c) ==
  [priority |-> OrElse(Member(c, KeyPriority), JStr(<<"m", "e", "d", "i", "u", "m">>)).s,
   description |-> OrElse(Member(c, KeyDescription), JStr(<<>>)).s]

\* runEditorSynthesis from `const responseText` to its return.
SynthesisOf(responseText) ==
  LET Built(synthesis) ==
        [overallAssessment |->
           OrElse(Member(synthesis, KeyAssessment), JStr(Slice(responseText, 500))).s,
         prioritizedChanges |->
           LET Mapped(pc) == IF Falsy(pc) THEN <<>>
                             ELSE [i \in 1..Len(pc.s) |-> PrioritizedChange(pc.s[i])]
           IN Mapped(Member(synthesis, KeyChanges))]
      Parsed(cs, r) == IF r.ok /\ r.next = Len(cs) + 1 THEN r.items ELSE <<>>
      Matched(jsonMatch) ==
        IF jsonMatch.found
        THEN Parsed(jsonMatch.text, ParseJsonMembers(jsonMatch.text, 2, <<>>))
        ELSE <<>>
  IN Built(Matched(FindJsonObject(responseText)))

\* The editor's answers: an object with or without an assessment and a list of
\* changes, inside prose with or without braces of its own, whole or cut
\* before its last brace; and prose without any object.
SynthSources ==
  [kind : {"object"},
   prefix : {<<>>, <<"H", "e", "r", "e", ":", " ">>, <<"U", "s", "e", " ", "{", "x", "}", ".", " ">>},
   assessment : {JAbsent, JStr(<<"S", "o", "l", "i", "d", " ", "d", "r", "a", "f", "t", ".">>)},
   changes : {[t |-> "absent", items |-> <<>>], [t |-> "list", items |-> <<>>]}
             \cup {[t |-> "list", items |-> cs] :
                     cs \in SeqsUpTo([priority : {JAbsent, JStr(<<"h", "i", "g", "h">>), JStr(<<"u", "r", "g", "e", "n", "t">>)},
                                      description : {JAbsent, JStr(<<"C", "u", "t", " ", "t", "h", "e", " ", "i", "n", "t", "r", "o">>)}],
                                     MaxChanges)},
   suffix : {<<>>, <<" ", "(", "s", "e", "e", " ", "{", "y", "}", ")">>},
   broken : BOOLEAN]
  \cup [kind : {"prose"},
        prefix : {<<>>, <<"N", "o", " ", "c", "h", "a", "n", "g", "e", "s", " ", "n", "e", "e", "d", "e", "d", ".">>, <<" ">> \o [i \in 1..510 |-> "z"]},
        assessment : {JAbsent},
        changes : {[t |-> "absent", items |-> <<>>]},
        suffix : {<<>>},
        broken : {FALSE}]

\* The text of an answer.
RenderSynthesis(src) ==
  LET Change(c) ==
        <<"{">> \o Join(RenderField(KeyPriority, c.priority)
                        \o RenderField(KeyDescription, c.description), <<",">>) \o <<"}">>
      Changes ==
        IF src.changes.t = "absent" THEN <<>>
        ELSE <<<<Quote>> \o KeyChanges \o <<Quote, ":", "[">>
               \o Join([i \in 1..Len(src.changes.items) |-> Change(src.changes.items[i])], <<",">>)
               \o <<"]">>>>
  IN IF src.kind = "prose" THEN src.prefix
     ELSE src.prefix \o <<"{">> \o Join(RenderField(KeyAssessment, src.assessment) \o Changes, <<",">>)
          \o (IF src.broken THEN <<>> ELSE <<"}">>) \o src.suffix

\* runEditorSynthesis: the response text is parsed and the synthesis built.
BuildSynthesis ==
  /\ synth.pc = "called"
  /\ synth' = [synth EXCEPT !.pc = "done", !.result = SynthesisOf(synth.responseText)]
  /\ UNCHANGED <<reviewVars, mmVars, parseVars, searchVars, conv, wfVars, imgVars>>

InitSynth ==
  /\ reviewers = [r \in ReviewerIds |-> [model |-> "A", isEditor |-> FALSE, enabled |-> FALSE]]
  /\ store = InitStore
  /\ run = InitRun
  /\ hist = InitHist
  /\ gw = IdleGateway
  /\ mm = IdleManager
  /\ parser = IdleParser
  /\ \E src \in SynthSources :
       synth = [pc |-> "called", source |-> src, responseText |-> RenderSynthesis(src),
                result |-> [overallAssessment |-> <<>>, prioritizedChanges |-> <<>>]]
  /\ search = Idle /\ conv = Idle /\ wf = Idle /\ img = Idle

NextSynth == BuildSynthesis

SpecSynth == InitSynth /\ [][NextSynth]_vars

\* ------------------------------------------------- the workflow checklist
\* useWorkflowStore: the workflow of a document and toggleChecklistItem. The
\* calls toggle the items of the last MaxStages stages; the workflow starts at
\* the first of these stages with the items of the stages before it completed.
MaxStages == 2

STAGE_ORDER ==
  <<"setup", "outline", "drafting", "draft_complete", "self_review", "council_review",
    "revisions", "fact_check", "final_polish", "complete">>

DEFAULT_CHECKLIST ==
  <<[id |-> "setup-model", stage |-> "setup"],
    [id |-> "setup-preset", stage |-> "setup"],
    [id |-> "setup-context", stage |-> "setup"],
    [id |-> "outline-structure", stage |-> "outline"],
    [id |-> "outline-reviewed", stage |-> "outline"],
    [id |-> "draft-started", stage |-> "drafting"],
    [id |-> "draft-sections", stage |-> "drafting"],
    [id |-> "draft-complete", stage |-> "draft_complete"],
    [id |-> "review-read", stage |-> "self_review"],
    [id |-> "review-notes", stage |-> "self_review"],
    [id |-> "council-style", stage |-> "council_review"],
    [id |-> "council-facts", stage |-> "council_review"],
    [id |-> "council-hallucination", stage |-> "council_review"],
    [id |-> "council-artifacts", stage |-> "council_review"],
    [id |-> "revisions-style", stage |-> "revisions"],
    [id |-> "revisions-facts", stage |-> "revisions"],
    [id |-> "revisions-hallucinations", stage |-> "revisions"],
    [id |-> "revisions-artifacts", stage |-> "revisions"],
    [id |-> "factcheck-stats", stage |-> "fact_check"],
    [id |-> "factcheck-quotes", stage |-> "fact_check"],
    [id |-> "factcheck-refs", stage |-> "fact_check"],
    [id |-> "polish-read", stage |-> "final_polish"],
    [id |-> "polish-format", stage |-> "final_polish"],
    [id |-> "polish-title", stage |-> "final_polish"],
    [id |-> "polish-opening", stage |-> "final_polish"],
    [id |-> "polish-conclusion", stage |-> "final_polish"],
    [id |-> "complete-saved", stage |-> "complete"],
    [id |-> "complete-backed", stage |-> "complete"]>>

DocumentPaths == {"draft.md", "notes.md"}

NoWorkflow == [exists |-> FALSE, currentStage |-> "", checklist |-> <<>>]

\* Array.prototype.indexOf: the position from 0 of the first x, -1 without one.
IndexOf(list, x) ==
  LET Found(S) == IF S = {} THEN 0 - 1 ELSE Min(S) - 1
  IN Found({i \in 1..Len(list) : list[i] = x})

\* The stages whose items are toggled.
StagesInPlay == {STAGE_ORDER[i] : i \in (Len(STAGE_ORDER) - MaxStages + 1)..Len(STAGE_ORDER)}

\* createDefaultChecklist(), with the items of the stages already passed completed.
CreateDefaultChecklist ==
  [i \in 1..Len(DEFAULT_CHECKLIST) |->
     [id |-> DEFAULT_CHECKLIST[i].id, stage |-> DEFAULT_CHECKLIST[i].stage,
      completed |-> DEFAULT_CHECKLIST[i].stage \notin StagesInPlay]]

\* The item ids of the calls: the items of the stages in play, and an id that
\* no item has.
ItemIds ==
  {DEFAULT_CHECKLIST[i].id : i \in {j \in 1..Len(DEFAULT_CHECKLIST) :
                                      DEFAULT_CHECKLIST[j].stage \in StagesInPlay}}
  \cup {"no-such-item"}

\* AllCurrentComplete read from the checklist as it was before the toggle.
AllCurrentCompleteBefore(workflow, updatedChecklist) ==
  \A i \in 1..Len(workflow.checklist) :
    workflow.checklist[i].stage = workflow.currentStage => workflow.checklist[i].completed

\* updatedChecklist.filter(i => i.stage === workflow.currentStage).every(i => i.completed)
AllCurrentComplete(workflow, updatedChecklist) ==
  \A i \in 1..Len(updatedChecklist) :
    updatedChecklist[i].stage = workflow.currentStage => updatedChecklist[i].completed

\* toggleChecklistItem(documentPath, itemId): the documentWorkflows it sets.
ToggleChecklistItem(documentWorkflows, documentPath, itemId) ==
  LET workflow == documentWorkflows[documentPath]
      updatedChecklist ==
        [i \in 1..Len(workflow.checklist) |->
           IF workflow.checklist[i].id = itemId
           THEN [workflow.checklist[i] EXCEPT !.completed = ~@]
           ELSE workflow.checklist[i]]
      currentIndex == IndexOf(STAGE_ORDER, workflow.currentStage)
      newStage ==
        IF AllCurrentComplete(workflow, updatedChecklist) /\ currentIndex < Len(STAGE_ORDER) - 1
        THEN STAGE_ORDER[currentIndex + 2]
        ELSE workflow.currentStage
  IN IF ~workflow.exists THEN documentWorkflows
     ELSE [documentWorkflows EXCEPT ![documentPath] =
             [workflow EXCEPT !.checklist = updatedChecklist, !.currentStage = newStage]]

\* The user ticks or unticks an item of the checklist panel, or a caller
\* toggles an item of a document that has no workflow.
ToggleItem ==
  /\ wf.pc = "ready"
  /\ \E documentPath \in DocumentPaths, itemId \in ItemIds :
       wf' = [wf EXCEPT !.documentWorkflows = ToggleChecklistItem(@, documentPath, itemId),
                        !.before = wf.documentWorkflows,
                        !.call = [made |-> TRUE, documentPath |-> documentPath, itemId |-> itemId]]
  /\ UNCHANGED <<reviewVars, mmVars, parseVars, searchVars, convVars, imgVars>>

InitWorkflow ==
  /\ reviewers = [r \in ReviewerIds |-> [model |-> "A", isEditor |-> FALSE, enabled |-> FALSE]]
  /\ store = InitStore
  /\ run = InitRun
  /\ hist = InitHist
  /\ gw = IdleGateway
  /\ mm = IdleManager
  /\ parser = IdleParser
  /\ wf = LET workflows ==
                [d \in DocumentPaths |->
                   IF d = "draft.md"
                   THEN [exists |-> TRUE,
                         currentStage |-> STAGE_ORDER[Len(STAGE_ORDER) - MaxStages + 1],
                         checklist |-> CreateDefaultChecklist]
                   ELSE NoWorkflow]
          IN [pc |-> "ready", documentWorkflows |-> workflows, before |-> workflows,
              call |-> [made |-> FALSE, documentPath |-> "", itemId |-> ""]]
  /\ search = Idle /\ conv = Idle /\ synth = Idle /\ img = Idle

NextWorkflow == ToggleItem

SpecWorkflow == InitWorkflow /\ [][NextWorkflow]_vars

\* ------------------------------------------------- image generation: polling
\* The image studio panel polling the status of one queued generation. The
\* panel gives up after maxPolls = 120 ticks of its one-second timer; the model
\* counts to MaxPolls.
MaxPolls == 3

PromptId == "prompt-1"

\* initialStatus of useImageStore.
InitialStatus == [isGenerating |-> FALSE, progress |-> 0, error |-> "none"]

\* setStatus({...}) after handleGenerate has queued the generation.
GeneratingStatus == [isGenerating |-> TRUE, progress |-> 0, error |-> "none"]

\* Math.min(90, pollCount * 10)
EstimatedProgress(pollCount) == IF pollCount * 10 < 90 THEN pollCount * 10 ELSE 90

\* useImageStore.addToHistory: the image is put in front, 50 are kept.
AddToHistory(history, image) ==
  LET Kept(h) == IF Len(h) > 50 THEN SubSeq(h, 1, 50) ELSE h
  IN Kept(<<image>> \o history)

\* What /api/image/status may answer while the generation is in the given state.
StatusAnswers(server) ==
  (CASE server = "running" -> {"running", "pending"}
     [] server = "completed" -> {"completed"}
     [] server = "error" -> {"error"})
  \cup {"throws"}

\* The timer fires: pollStatus's callback up to its status request.
PollTick ==
  /\ img.pc = "polling"
  /\ img.interval
  /\ img' = IF img.pollCount + 1 > MaxPolls
            THEN [img EXCEPT !.pollCount = @ + 1, !.interval = FALSE,
                             !.status.isGenerating = FALSE, !.status.error = "timed_out"]
            ELSE [img EXCEPT !.pollCount = @ + 1, !.awaiting = @ + 1]
  /\ UNCHANGED <<reviewVars, mmVars, parseVars, searchVars, convVars, wfVars>>

\* ComfyUI finishes the generation, with an image or with an error.
GenerationEnds ==
  /\ img.pc = "polling"
  /\ img.server = "running"
  /\ \E end \in {"completed", "error"} : img' = [img EXCEPT !.server = end]
  /\ UNCHANGED <<reviewVars, mmVars, parseVars, searchVars, convVars, wfVars>>

\* A status request is answered: the callback that awaits it goes on, to the
\* save request when the generation is completed.
StatusArrives ==
  /\ img.pc = "polling"
  /\ img.awaiting > 0
  /\ \E data \in StatusAnswers(img.server) :
       img' = CASE data = "completed" ->
                     [img EXCEPT !.awaiting = @ - 1, !.interval = FALSE,
                                 !.saving = @ + 1, !.saves = @ + 1]
                [] data = "error" ->
                     [img EXCEPT !.awaiting = @ - 1, !.interval = FALSE,
                                 !.status.isGenerating = FALSE, !.status.error = "failed"]
                [] data = "running" ->
                     [img EXCEPT !.awaiting = @ - 1,
                                 !.status.progress = EstimatedProgress(img.pollCount)]
                [] OTHER -> [img EXCEPT !.awaiting = @ - 1]
  /\ UNCHANGED <<reviewVars, mmVars, parseVars, searchVars, convVars, wfVars>>

\* The save request of a callback is answered: the image goes to the history
\* when the answer is 2xx, and the status is set to finished; a request that
\* fails ends the callback in its catch.
SaveArrives ==
  /\ img.pc = "polling"
  /\ img.saving > 0
  /\ \E answer \in {"ok", "not_ok", "throws"} :
       img' = CASE answer = "ok" ->
                     [img EXCEPT !.saving = @ - 1,
                                 !.history = AddToHistory(@, PromptId),
                                 !.selectedImageId = PromptId,
                                 !.status.isGenerating = FALSE, !.status.progress = 100]
                [] answer = "not_ok" ->
                     [img EXCEPT !.saving = @ - 1,
                                 !.status.isGenerating = FALSE, !.status.progress = 100]
                [] OTHER -> [img EXCEPT !.saving = @ - 1]
  /\ UNCHANGED <<reviewVars, mmVars, parseVars, searchVars, convVars, wfVars>>

\* handleCancel up to its interrupt request: the timer is cleared.
HandleCancel ==
  /\ img.pc = "polling"
  /\ img.status.isGenerating
  /\ img.cancel = "none"
  /\ img' = [img EXCEPT !.interval = FALSE, !.cancel = "interrupting"]
  /\ UNCHANGED <<reviewVars, mmVars, parseVars, searchVars, convVars, wfVars>>

\* handleCancel after its interrupt request has settled: resetStatus().
CancelSettles ==
  /\ img.pc = "polling"
  /\ img.cancel = "interrupting"
  /\ img' = [img EXCEPT !.cancel = "done", !.status = InitialStatus,
                        !.historyAtCancel = img.history]
  /\ UNCHANGED <<reviewVars, mmVars, parseVars, searchVars, convVars, wfVars>>

\* handleGenerate has queued the generation and called pollStatus.
InitImage ==
  /\ reviewers = [r \in ReviewerIds |-> [model |-> "A", isEditor |-> FALSE, enabled |-> FALSE]]
  /\ store = InitStore
  /\ run = InitRun
  /\ hist = InitHist
  /\ gw = IdleGateway
  /\ mm = IdleManager
  /\ parser = IdleParser
  /\ img = [pc |-> "polling", interval |-> TRUE, pollCount |-> 0, awaiting |-> 0,
            saving |-> 0, saves |-> 0, server |-> "running", status |-> GeneratingStatus,
            history |-> <<>>, selectedImageId |-> "none", cancel |-> "none",
            historyAtCancel |-> <<>>]
  /\ search = Idle /\ conv = Idle /\ synth = Idle /\ wf = Idle

NextImage ==
  \/ PollTick
  \/ GenerationEnds
  \/ StatusArrives
  \/ SaveArrives
  \/ HandleCancel
  \/ CancelSettles

SpecImage == InitImage /\ [][NextImage]_vars

\* ------------------------------------------------- properties
Doc == store.currentReviewDocument

ModelOf(r) == reviewers[r].model

InProgress == {r \in ReviewerIds : store.reviewProgress[r] = "in_progress"}

FeedbackIds(cf) == [i \in 1..Len(cf) |-> cf[i].reviewerId]

\* The reviewers of calls whose task has settled without throwing, in call order.
RECURSIVE Succeeded(_)
Succeeded(calls) ==
  IF calls = <<>> THEN <<>>
  ELSE LET r == calls[1]
       IN (IF r \in hist.settled \ hist.failed THEN <<r>> ELSE <<>>) \o Succeeded(Tail(calls))

IsPrefix(s, t) == Len(s) <= Len(t) /\ \A i \in 1..Len(s) : s[i] = t[i]

C1_RunPhasesIncrease ==
  \A i, j \in 1..Len(hist.phaseLog) :
    i < j => PhaseRank(hist.phaseLog[i]) < PhaseRank(hist.phaseLog[j])

C1_BackwardOnlyByCancel ==
  PhaseRank(store'.reviewPhase) < PhaseRank(store.reviewPhase) =>
    (store'.reviewPhase = "idle" /\ ~hist.cancelled /\ hist'.cancelled)

\* C1: the phases one run hands to setReviewPhase are strictly increasing along
\* idle -> council_reviewing -> editor_synthesizing -> user_deciding -> complete
\* (the run never sets a phase at or before one it has set already), and the
\* only step that moves the review phase backward is a cancel resetting it to idle.
C1_PhaseForward == [](C1_RunPhasesIncrease) /\ [][C1_BackwardOnlyByCancel]_vars

C1_Witness ==
  /\ run.pc = "done"
  /\ hist.phaseLog = <<"council_reviewing", "editor_synthesizing", "user_deciding">>

\* C2: in runFullCouncilReview and runReviewPipeline at most one reviewer is
\* in_progress, at most one reviewer call is outstanding, and every reviewer
\* called before the latest one has settled.
C2_Sequential ==
  run.mode \in {"full", "pipeline"} =>
    /\ Cardinality(InProgress) <= 1
    /\ Cardinality(run.inflight) <= 1
    /\ \A i \in 1..Len(hist.calls) - 1 : hist.calls[i] \in hist.settled

C2_Witness ==
  /\ Len(hist.calls) >= 2
  /\ run.inflight # {}
  /\ InProgress = run.inflight

\* C3: every reviewer inference call of the council phase is preceded by an
\* ensureLoaded call for that reviewer's model.
C3_EnsureLoadedBeforeInference ==
  run.mode = "full" =>
    \A i \in 1..Len(hist.calls) : ModelOf(hist.calls[i]) \in Range(hist.residencyCalls)

\* Exactly one model is resident, and it is the one listed as wanted.
SoleResident(wanted) ==
  /\ Cardinality(gw.resident) = 1
  /\ \A l \in gw.resident : Matches(l, wanted)

\* C4 as claimed: whenever ensureLoaded(M) has returned success and every
\* eviction request took effect, M is resident and no other model is, whatever
\* was resident before.
C4_OnlyTargetResident ==
  (mm.pc = "returned" /\ mm.result /\ ~mm.evictMissed) => SoleResident(mm.target)

\* C4 (amended): whenever ensureLoaded(M) has returned success a model listed as
\* M is resident; when the call's listing succeeded and did not list M, and
\* every eviction request took effect, M is resident and no other model is.
C4_TargetResident ==
  (mm.pc = "returned" /\ mm.result) =>
    /\ \E l \in gw.resident : Matches(l, mm.target)
    /\ (mm.listedOk /\ ~mm.fast /\ ~mm.evictMissed) =>
         /\ SoleResident(mm.target)
         /\ gw.resident = {Canon(mm.target)}

C4_Witness ==
  /\ mm.pc = "returned" /\ mm.result
  /\ mm.listedOk /\ ~mm.fast /\ ~mm.evictMissed
  /\ Cardinality(mm.residentAtCall) >= 2
  /\ SoleResident(mm.target)

\* C5: in execution order the council reviewers of one model are adjacent.
C5_SameModelAdjacent ==
  run.mode = "full" =>
    \A i, j, k \in 1..Len(hist.calls) :
      (i < j /\ j < k /\ ModelOf(hist.calls[i]) = ModelOf(hist.calls[k]))
        => ModelOf(hist.calls[j]) = ModelOf(hist.calls[i])

\* C6: a run started from the UI that is not cancelled ends in user_deciding; when
\* no reviewer succeeded the ReviewDocument is empty and the session summary
\* notes all the failures.
C6_EndsInUserDeciding ==
  (run.mode = "full" /\ run.pc = "done" /\ ~hist.cancelled) =>
    /\ store.reviewPhase = "user_deciding"
    /\ (hist.settled \subseteq hist.failed) =>
         /\ Doc.exists /\ Doc.councilFeedback = <<>>
         /\ store.currentSession.summary.set
         /\ store.currentSession.summary.errors = Cardinality(hist.failed)

\* C7: with any subset of the council failing, the finished run is in
\* user_deciding, holds the findings of exactly the reviewers that did not fail,
\* and its session summary notes every failed reviewer.
C7_FailuresNotedInSummary ==
  (run.mode = "full" /\ run.pc = "done" /\ run.council # <<>> /\ ~hist.cancelled) =>
    /\ store.reviewPhase = "user_deciding"
    /\ {Doc.councilFeedback[i].reviewerId : i \in 1..Len(Doc.councilFeedback)}
         = Range(run.council) \ hist.failed
    /\ \A i \in 1..Len(store.currentSession.comments) :
         store.currentSession.comments[i].reviewerId \notin hist.failed
    /\ hist.failed # {} =>
         /\ store.currentSession.summary.set
         /\ store.currentSession.summary.errors = Cardinality(hist.failed)

\* C8: once the review is cancelled while a reviewer task is running, no further
\* reviewer call and no synthesis call is issued, the run sets no phase any
\* more, the state is idle and no ReviewDocument is observable.
C8_CancelStopsRun ==
  (run.mode = "full" /\ hist.cancelled /\ hist.cancelPc = "reviewing") =>
    /\ ~hist.synthSent
    /\ Len(hist.calls) = hist.callsAtCancel
    /\ Len(hist.phaseLog) = hist.phasesAtCancel
    /\ store.reviewPhase = "idle"
    /\ ~Doc.exists

\* C9: editorSynthesis is written at most once, and only when every council
\* reviewer of the run has settled; the synthesis call is issued only then, and
\* its prompt is built from the councilFeedback of all reviewers that succeeded,
\* which is the document's councilFeedback from then on.
C9_SynthesisAfterCouncil ==
  /\ hist.synthWrites <= 1
  /\ Doc.editorSynthesis.set =>
       /\ Range(run.council) \subseteq hist.settled
       /\ hist.synthSent
  /\ hist.synthSent =>
       /\ Range(run.council) \subseteq hist.settled
       /\ FeedbackIds(hist.synthInput) = Succeeded(hist.calls)
       /\ Doc.exists => Doc.councilFeedback = hist.synthInput

C9_Witness ==
  /\ Doc.editorSynthesis.set
  /\ Len(Doc.councilFeedback) >= 1
  /\ hist.failed # {}

C10_EntriesState ==
  (run.mode = "full" /\ Doc.exists) =>
    /\ FeedbackIds(Doc.councilFeedback) = Succeeded(hist.calls)
    /\ \A i, j \in 1..Len(Doc.councilFeedback) :
         Doc.councilFeedback[i].reviewerId = Doc.councilFeedback[j].reviewerId => i = j
    /\ \A i \in 1..Len(Doc.councilFeedback) :
         LET e == Doc.councilFeedback[i]
         IN /\ ~reviewers[e.reviewerId].isEditor
            /\ e.reviewerId \in Range(run.reviewerIds)
            /\ e.reviewerId \notin hist.failed
            /\ \A c \in 1..Len(e.comments) : e.comments[c].reviewerId = e.reviewerId

C10_EntriesStep ==
  (Doc.exists /\ Doc'.exists) => IsPrefix(Doc.councilFeedback, Doc'.councilFeedback)

EditorOfRun ==
  {i \in Range(run.reviewerIds) : reviewers[i].isEditor /\ reviewers[i].enabled}

\* C11: editor_synthesizing is entered and the synthesis call is issued only when
\* an editor reviewer is configured and enabled for the run; without one the
\* finished run has gone from council_reviewing directly to user_deciding and
\* has issued no synthesis call.
C11_SynthesisOnlyWithEditor ==
  run.mode = "full" =>
    /\ ("editor_synthesizing" \in Range(hist.phaseLog) \/ hist.synthSent) =>
         /\ EditorOfRun # {}
         /\ run.editor \in EditorOfRun
    /\ (run.pc = "done" /\ run.council # <<>> /\ EditorOfRun = {}) =>
         /\ hist.phaseLog = <<"council_reviewing", "user_deciding">>
         /\ ~hist.synthSent
         /\ ~Doc.editorSynthesis.set

C11_Witness ==
  /\ run.mode = "full" /\ run.pc = "done" /\ ~hist.cancelled
  /\ \E i \in ReviewerIds : reviewers[i].isEditor /\ ~reviewers[i].enabled
  /\ EditorOfRun = {}
  /\ hist.phaseLog = <<"council_reviewing", "user_deciding">>
  /\ store.reviewPhase = "user_deciding"

\* C12: a synthesis failure leaves editorSynthesis unset and the councilFeedback
\* collected before it unchanged, and the run still sets user_deciding.
C12_SynthesisFailureTolerated ==
  (run.mode = "full" /\ hist.synthThrew) =>
    /\ ~hist.synthReturned
    /\ hist.synthWrites = 0
    /\ ~Doc.editorSynthesis.set
    /\ (Doc.exists /\ hist.synthSent) => Doc.councilFeedback = hist.synthInput
    /\ Doc.exists => FeedbackIds(Doc.councilFeedback) = Succeeded(hist.calls)
    /\ run.pc = "done"
    /\ hist.phaseLog[Len(hist.phaseLog)] = "user_deciding"
    /\ ~hist.cancelled => store.reviewPhase = "user_deciding"

C12_Witness ==
  /\ run.mode = "full" /\ hist.synthSent /\ hist.synthThrew /\ ~hist.cancelled
  /\ Len(Doc.councilFeedback) >= 1
  /\ store.reviewPhase = "user_deciding"

\* C13: runEditorSynthesis never throws: whatever the gateway answers and
\* whatever the council collected, it returns an EditorSynthesis.
C13_SynthesisNeverThrows ==
  (run.mode = "full" /\ run.pc = "done" /\ hist.synthSent /\ ~hist.cancelled) =>
    /\ ~hist.synthThrew
    /\ hist.synthReturned

\* The requests of kind op in a request log, in order.
OpsOf(log, op) == SelectSeq(log, LAMBDA e : e.op = op)

\* The model the call asks for was resident at the gateway when the call was made.
ResidentAtCall == \E l \in mm.residentAtCall : Matches(l, mm.target)

\* C14 as claimed: ensureLoaded(M) called while M is resident returns success,
\* issues no eviction and no load request and leaves the resident set unchanged.
C14_ResidentIsNoOp ==
  (mm.pc = "returned" /\ ResidentAtCall) =>
    /\ mm.result
    /\ OpsOf(mm.log, "evict") = <<>>
    /\ OpsOf(mm.log, "load") = <<>>
    /\ gw.resident = mm.residentAtCall

\* C14 (amended): ensureLoaded(M) whose residency listing succeeds while M is
\* resident returns success at once: its only request is the listing, the
\* resident set is unchanged, and the same call made again takes the same path
\* with the same result.
C14_FastPath ==
  /\ (mm.listedOk /\ ResidentAtCall) =>
       /\ mm.pc = "returned" /\ mm.fast /\ mm.result
       /\ mm.log = <<Request("ps", NoName)>>
       /\ gw.resident = mm.residentAtCall
  /\ (mm.listedOk /\ mm.repeatsFast) =>
       /\ ResidentAtCall
       /\ mm.pc = "returned" /\ mm.fast /\ mm.result
       /\ gw.resident = mm.residentAtCall

C14_Witness ==
  /\ mm.pc = "returned" /\ mm.fast /\ mm.repeatsFast /\ mm.result
  /\ mm.target.tag = NoTag
  /\ Cardinality(mm.residentAtCall) >= 2
  /\ gw.resident = mm.residentAtCall

\* Exactly one eviction request, for n, and exactly one load request, for the
\* target, the load issued after unloadModel(n) has returned.
OneEvictionThenOneLoad(n) ==
  /\ OpsOf(mm.log, "evict") = <<Request("evict", n)>>
  /\ OpsOf(mm.log, "load") = <<Request("load", mm.target)>>
  /\ \A i \in 1..Len(mm.log) :
       mm.log[i].op = "load" =>
         \E h, k \in 1..Len(mm.log) :
           /\ h < k /\ k < i
           /\ mm.log[h] = Request("evict", n)
           /\ mm.log[k] = Request("evict_returned", n)

\* C15 as claimed: ensureLoaded(M) called while a different model N is the
\* resident model issues exactly one eviction request for N and then exactly one
\* load request for M.
C15_OneEvictionOneLoad ==
  \A n \in GwNames :
    (mm.pc = "returned" /\ mm.residentAtCall = {n} /\ ~Matches(n, mm.target)) =>
      OneEvictionThenOneLoad(n)

\* C15 (amended): ensureLoaded(M) whose residency listing succeeds and does not
\* list M issues one eviction request for every listed model and none for any
\* other, then one load request for M, issued only after every unloadModel call
\* has returned; with the single resident model N that is exactly one eviction
\* of N followed by exactly one load of M.
C15_EvictThenLoad ==
  (mm.listedOk /\ ~ResidentAtCall) =>
    LET evicts == OpsOf(mm.log, "evict")
        loads == OpsOf(mm.log, "load")
        done == OpsOf(mm.log, "evict_returned")
    IN /\ \A i, j \in 1..Len(evicts) : evicts[i] = evicts[j] => i = j
       /\ {evicts[i].name : i \in 1..Len(evicts)} \subseteq mm.residentAtCall
       /\ Len(loads) <= 1
       /\ \A i \in 1..Len(loads) : loads[i].name = mm.target
       /\ mm.pc = "returned" => Len(loads) = 1
       /\ loads # <<>> =>
            /\ {evicts[i].name : i \in 1..Len(evicts)} = mm.residentAtCall
            /\ Len(done) = Len(evicts)
            /\ \A i, j \in 1..Len(mm.log) :
                 (mm.log[i].op = "load" /\ mm.log[j].op \in {"evict", "evict_returned"})
                   => j < i
       /\ \A n \in GwNames :
            (mm.pc = "returned" /\ mm.residentAtCall = {n}) => OneEvictionThenOneLoad(n)

C15_Witness ==
  /\ mm.pc = "returned" /\ mm.listedOk /\ mm.result
  /\ \E n \in GwNames :
       /\ mm.residentAtCall = {n}
       /\ n.base # mm.target.base
       /\ OneEvictionThenOneLoad(n)
  /\ gw.resident = {Canon(mm.target)}

ThrownToCaller == hist.failed

\* C17: runReviewer marks the reviewer in_progress while its call is running and
\* complete or error once it has settled, and no runReviewer call ends by
\* throwing to its caller.
C17_ErrorNotPropagated ==
  ~hist.cancelled =>
    /\ \A r \in run.inflight : store.reviewProgress[r] = "in_progress"
    /\ \A r \in hist.settled : store.reviewProgress[r] \in {"complete", "error"}
    /\ \A r \in hist.settled : r \notin ThrownToCaller

\* C18: every reviewer call that has been issued eventually settles, and a
\* synthesis call that has been issued eventually lets the run finish, even when
\* the gateway never answers.
C18_CallsEventuallySettle ==
  /\ \A r \in ReviewerIds : (r \in run.inflight) ~> (r \in hist.settled)
  /\ (run.pc = "synthesizing") ~> (run.pc = "done")

\* The value a finding is to carry for a field that defaults to d when absent.
OrDefault(v, d) == IF v = JAbsent THEN d ELSE v

\* C19: parseFeedback of a response that is a well-formed JSON array of objects
\* returns exactly one finding per array element, in array order, each with the
\* element's line, type, comment and suggestion unchanged, line being 1 and type
\* suggestion only where the element has none.
C19_OneFindingPerElement ==
  (parser.pc = "returned" /\ parser.source.kind = "json") =>
    /\ Len(parser.feedback) = Len(parser.source.items)
    /\ \A i \in 1..Len(parser.source.items) :
         LET f == parser.feedback[i]
             e == parser.source.items[i]
         IN /\ f.line = OrDefault(e.line, JNum(1))
            /\ f.type = OrDefault(e.type, JStr(KeySuggestion))
            /\ f.comment = e.comment
            /\ f.suggestion = e.suggestion

RECURSIVE LinesOfShape(_, _)
\* The "Line N: <text>" lines of a response, in document order; with long set,
\* only those whose trimmed text is longer than 10 characters.
LinesOfShape(lines, long) ==
  IF lines = <<>> THEN <<>>
  ELSE LET l == Head(lines)
       IN (IF l.shape = "line" /\ (long => Len(Trim(l.text)) > 10) THEN <<l>> ELSE <<>>)
            \o LinesOfShape(Tail(lines), long)

\* parseFeedback has returned for a response made of lines, not of a JSON array.
LinesParsed == parser.pc = "returned" /\ parser.source.kind = "lines"

RawParsed == parser.pc = "returned" /\ parser.source.kind = "raw"

\* The finding is the general one: line 1, type suggestion, and as its comment
\* the first 500 characters at most of the trimmed response.
IsGeneral(f) ==
  LET trimmed == Trim(parser.response)
  IN /\ f.line = JNum(1)
     /\ f.type = JStr(KeySuggestion)
     /\ Len(f.comment.s) <= 500
     /\ f.comment.s = SubSeq(trimmed, 1, IF Len(trimmed) < 500 THEN Len(trimmed) ELSE 500)

\* C21 as stated: when neither the JSON array nor a line pattern yields a
\* finding, parseFeedback returns exactly one general finding for every
\* response that is not empty, and none for an empty or white-space-only one.
C21_OneFindingIfNonEmpty ==
  RawParsed =>
    IF Trim(parser.response) = <<>>
    THEN parser.feedback = <<>>
    ELSE Len(parser.feedback) = 1 /\ IsGeneral(parser.feedback[1])

\* C21: when neither the JSON array nor a line pattern yields a finding,
\* parseFeedback returns exactly one general finding (line 1, type suggestion,
\* comment of at most 500 characters) when the trimmed response is longer than
\* 20 characters, and no finding otherwise.
C21_OneFindingIfLong ==
  RawParsed =>
    IF Len(Trim(parser.response)) > 20
    THEN Len(parser.feedback) = 1 /\ IsGeneral(parser.feedback[1])
    ELSE parser.feedback = <<>>

\* A response of more than 500 characters has been cut to a general finding.
C21_Witness ==
  RawParsed /\ Len(Trim(parser.response)) > 500 /\ Len(parser.feedback) = 1

\* C22: when the Perplexica request has failed (non-2xx response, transport
\* error or timeout) the route answers with the SearXNG results and an error
\* note, and with an empty result list only when the fallback has failed too;
\* it never answers with an error response.
C22_FallsBackToSearXNG ==
  (search.pc = "done" /\ search.perplexica \in {"not_ok", "transport_error", "timeout"}) =>
    /\ search.response.status = 200
    /\ search.response.note
    /\ IF search.searxng = "json"
       THEN search.response.searchEngine = "searxng" /\ search.response.results = search.data
       ELSE search.response.results = 0

\* C23: no call of parseFeedback throws: every call returns a list of findings,
\* each with a line number, a type and a comment; and a call whose JSON strategy has failed with an exception goes on to the
\* later strategies, so that a response of more than 20 characters still gives
\* at least one finding.
C23_ParserNeverThrows ==
  /\ parser.pc # "threw"
  /\ parser.pc = "returned" =>
       /\ ~parser.threw
       /\ \A i \in 1..Len(parser.feedback) :
            /\ parser.feedback[i].line.t = "num"
            /\ parser.feedback[i].type.t = "str"
            /\ parser.feedback[i].comment.t = "str"
       /\ (parser.caught /\ Len(Trim(parser.response)) > 20) => parser.feedback # <<>>

\* A call whose try block has thrown on a null element has returned findings.
C23_Witness ==
  /\ parser.pc = "returned"
  /\ parser.caught
  /\ Includes(parser.response, <<"n", "u", "l", "l">>)
  /\ parser.feedback # <<>>

\* C24: the severity of a comment follows from its type and its text: error gives
\* high, warning medium, praise low, and for any other type the words of the
\* text decide (critical/must/immediately high, else should/consider/might
\* medium, else low); the comment keeps the type of the feedback.
C24_SeverityFromTypeThenWords ==
  conv.pc = "done" =>
    /\ conv.comment.type = conv.f.type
    /\ conv.comment.severity =
         CASE conv.f.type = "error" -> "high"
           [] conv.f.type = "warning" -> "medium"
           [] conv.f.type = "praise" -> "low"
           [] OTHER -> conv.f.comment.level

\* A comment of type error whose words alone stand for low has severity high.
C24_Witness ==
  /\ conv.pc = "done"
  /\ conv.f.type = "error"
  /\ conv.f.comment.level = "low"
  /\ conv.comment.severity = "high"

\* C25: for feedback without text, originalText is the document line at the
\* feedback's line number L clamped to 1..n for a document of n lines;
\* startLine and endLine are L and the status is pending.
C25_OriginalTextClamped ==
  LET n == Len(conv.f.doc)
      L == conv.f.line
  IN conv.pc = "done" =>
       /\ conv.comment.startLine = L
       /\ conv.comment.endLine = L
       /\ conv.comment.status = "pending"
       /\ conv.f.text = <<>> =>
            conv.comment.originalText = conv.f.doc[IF L < 1 THEN 1 ELSE IF L > n THEN n ELSE L]

\* Feedback without text for a line past the end of a document of several
\* lines has been given the last line, which is not empty.
C25_Witness ==
  /\ conv.pc = "done"
  /\ conv.f.text = <<>>
  /\ Len(conv.f.doc) > 1
  /\ conv.f.line > Len(conv.f.doc)
  /\ conv.comment.originalText # <<>>

\* The answer holds an object JSON.parse accepts, and no brace outside it.
Parseable(src) ==
  /\ src.kind = "object"
  /\ ~src.broken
  /\ ~Includes(src.prefix, <<"{">>)
  /\ ~Includes(src.suffix, <<"}">>)

TasksOf(status) == {r \in Range(run.council) : run.results[r].status = status}

\* C27: runReviewPipelineParallel issues the inference call of every enabled
\* reviewer, in the order of the reviewers array and without ensureModelLoaded,
\* before any of them has settled; completeReview is called at most once, and
\* once it is called every task has settled; the summary it is called with
\* counts one error per rejected task and holds the comments of every fulfilled
\* task and no others.
C27_ParallelRun ==
  run.mode = "parallel" /\ run.council # <<>> =>
    /\ hist.calls = run.council
    /\ hist.residencyCalls = <<>>
    /\ Len(hist.completeLog) = (IF run.pc = "done" THEN 1 ELSE 0)
    /\ run.pc = "done" =>
         /\ hist.settled = Range(run.council)
         /\ TasksOf("pending") = {}
         /\ TasksOf("rejected") = hist.failed
         /\ hist.completeLog[1].errors = Cardinality(TasksOf("rejected"))
         /\ hist.completeLog[1].items = Len(run.allComments)
         /\ \A r \in TasksOf("fulfilled") : \A j \in 1..Len(run.results[r].value) :
              \E k \in 1..Len(run.allComments) : run.allComments[k] = run.results[r].value[j]
         /\ \A k \in 1..Len(run.allComments) :
              \E r \in TasksOf("fulfilled") : \E j \in 1..Len(run.results[r].value) :
                run.allComments[k] = run.results[r].value[j]
         /\ \A k, l \in 1..Len(run.allComments) : run.allComments[k] = run.allComments[l] => k = l

\* A parallel run of two or more tasks is over: one task was rejected and a
\* later one of the list fulfilled with a finding.
C27_Witness ==
  /\ run.mode = "parallel"
  /\ run.pc = "done"
  /\ Len(run.council) >= 2
  /\ \E r \in TasksOf("rejected") : \E q \in TasksOf("fulfilled") :
       r < q /\ run.results[q].value # <<>>

\* The position of a stage in STAGE_ORDER, from 1.
StagePosition(stage) == CHOOSE i \in 1..Len(STAGE_ORDER) : STAGE_ORDER[i] = stage

\* C28: after toggleChecklistItem(doc, item) on a document with a workflow, the
\* item of that id has its completed flag flipped and every other item is as
\* before; currentStage is the next stage of STAGE_ORDER if every item of the
\* stage it was in is now completed and that stage is not the last, and is as
\* before otherwise, so it never moves backward nor by more than one stage;
\* the workflows of other documents, and everything when the document has no
\* workflow, are as before.
C28_ToggleAdvancesStage ==
  wf.pc = "ready" /\ wf.call.made =>
    LET old == wf.before[wf.call.documentPath]
        new == wf.documentWorkflows[wf.call.documentPath]
        allDone == \A i \in 1..Len(new.checklist) :
                     new.checklist[i].stage = old.currentStage => new.checklist[i].completed
    IN /\ \A d \in DocumentPaths \ {wf.call.documentPath} : wf.documentWorkflows[d] = wf.before[d]
       /\ ~old.exists => new = old
       /\ old.exists =>
            /\ new.exists /\ Len(new.checklist) = Len(old.checklist)
            /\ \A i \in 1..Len(old.checklist) :
                 /\ new.checklist[i].id = old.checklist[i].id
                 /\ new.checklist[i].stage = old.checklist[i].stage
                 /\ new.checklist[i].completed =
                      IF old.checklist[i].id = wf.call.itemId
                      THEN ~old.checklist[i].completed
                      ELSE old.checklist[i].completed
            /\ StagePosition(new.currentStage) =
                 IF allDone /\ old.currentStage # "complete"
                 THEN StagePosition(old.currentStage) + 1
                 ELSE StagePosition(old.currentStage)
            /\ StagePosition(new.currentStage) - StagePosition(old.currentStage) \in {0, 1}

\* The toggle that completed the last open item of final_polish moved the
\* workflow to the last stage.
C28_Witness ==
  /\ wf.pc = "ready" /\ wf.call.made
  /\ wf.before["draft.md"].currentStage = "final_polish"
  /\ wf.documentWorkflows["draft.md"].currentStage = "complete"
  /\ \E i \in 1..Len(DEFAULT_CHECKLIST) :
       /\ DEFAULT_CHECKLIST[i].id = wf.call.itemId
       /\ DEFAULT_CHECKLIST[i].stage = "final_polish"
       /\ ~wf.before["draft.md"].checklist[i].completed

\* The reviewer-ID list of the run names no reviewer that is not an editor.
OnlyEditors == \A i \in 1..Len(run.reviewerIds) : reviewers[run.reviewerIds[i]].isEditor

\* runFullCouncilReview ran, from a list of editors only: it has returned, and
\* the store, the inference calls and the phases set are as they were.
C29_ReturnStep ==
  (run.pc = "importing" /\ OnlyEditors /\ run' # run) =>
    /\ run'.pc = "done"
    /\ store' = store
    /\ hist'.calls = hist.calls
    /\ hist'.synthSent = hist.synthSent
    /\ hist'.phaseLog = hist.phaseLog

\* C29: when the reviewer-ID list handed to runFullCouncilReview holds no
\* non-editor reviewer, the function returns at once and leaves the store as it
\* is: no ReviewDocument is created, no inference call (of a reviewer or of the
\* synthesis) is issued, no phase is set, and none of this happens later.
C29_NoCouncilNoRun ==
  /\ [][C29_ReturnStep]_vars
  /\ [](run.mode = "full" /\ run.pc # "importing" /\ OnlyEditors =>
          /\ run.pc = "done"
          /\ hist.calls = <<>>
          /\ ~hist.synthSent
          /\ hist.phaseLog = <<>>
          /\ ~Doc.exists
          /\ store.reviewPhase = "idle")

\* runFullCouncilReview has returned from a list that names the editor alone.
C29_Witness ==
  /\ run.mode = "full"
  /\ run.pc = "done"
  /\ Len(run.reviewerIds) = 1
  /\ OnlyEditors

\* C30: for one generation the image is saved and added to the history at most
\* once; the timer is cleared once a callback has seen the generation completed
\* or failed or has counted more than the maximum of polls; and once a cancel
\* is over, the history stays as the cancel found it and the status stays the
\* initial one.
C30_SavedOnceCancelFinal ==
  img.pc = "polling" =>
    /\ img.saves <= 1
    /\ Len(img.history) <= 1
    /\ (img.saves > 0 \/ img.status.error # "none" \/ img.pollCount > MaxPolls) => ~img.interval
    /\ img.cancel = "done" => img.history = img.historyAtCancel /\ img.status = InitialStatus

====
